---- MODULE Spec2Model ----
(***************************************************************************)
(* A model of the Musical Ear Test (src/musical_ear.py and its             *)
(* questionnaire variant src/musical_ear_psd.py): catalog loading, the     *)
(* session in main(), one sub-test in musical_ear_test(), the response     *)
(* window of play_stimulus_and_display_prompt(), scoring, the per-sub-test *)
(* clock and the two result files.                                         *)
(*                                                                         *)
(* Python strings that the code parses or concatenates (file names, test   *)
(* types, answers, instruction keys) are sequences of one-character        *)
(* strings, so that split/startswith/in/findall are computed here as       *)
(* Python computes them. Time is counted in ticks of 1/TicksPerSec second. *)
(***************************************************************************)
EXTENDS Integers, Sequences, FiniteSets, TLC

\* ------------------------------------------------------------------ bounds

\* clock ticks per second
TicksPerSec == 2
\* ticks one win.flip() of the polling loop takes (one poll period)
PollTicks == 2
\* seconds stimulus.getDuration() returns
StimSeconds == 1
\* participant events beyond the plain run (idle time at a screen, keys outside
\* a response window, unrecognised keys, further keys in a trial)
MaxStray == 1

\* ------------------------------------------------------- program constants

\* time_limit=2 of the test trials
TimeLimit == 2

\* ---------------------------------------------------------- Python strings

S_melody == <<"m","e","l","o","d","y">>
S_rhythm == <<"r","h","y","t","h","m">>
S_example == <<"_","e","x","a","m","p","l","e">>
S_test == <<"_","t","e","s","t">>
S_us == <<"_">>
S_ident == <<"i","d","e","n","t">>
S_yes == <<"y","e","s">>
S_no == <<"n","o">>
S_NA == <<"N","A">>
S_y == <<"y">>
S_n == <<"n">>
S_x == <<"x">>
S_slash == <<"/">>
S_colon == <<":">>
S_audio == <<"a","u","d","i","o">>
S_psd_audio == <<"p","s","d","_","a","u","d","i","o">>
S_part1 == <<"_","p","a","r","t","1">>
S_part2 == <<"_","p","a","r","t","2">>
S_practice_ == <<"_","p","r","a","c","t","i","c","e","_">>
S_general_intro == <<"g","e","n","e","r","a","l","_","i","n","t","r","o">>
S_end == <<"e","n","d">>

\* None, the value of response before a key is read
None == <<>>

DigitChars == <<"0","1","2","3","4","5","6","7","8","9">>

IsDigit(c) == \E d \in 1..10 : DigitChars[d] = c

DigitValue(c) == (CHOOSE d \in 1..10 : DigitChars[d] = c) - 1

\* s.startswith(p)
StartsWith(s, p) == Len(s) >= Len(p) /\ SubSeq(s, 1, Len(p)) = p

\* the index of the first occurrence of p in s, 0 when there is none (s.find(p) + 1)
Find(s, p) ==
    LET hits == {k \in 1..(Len(s) - Len(p) + 1) : SubSeq(s, k, k + Len(p) - 1) = p}
    IN IF hits = {} THEN 0 ELSE CHOOSE k \in hits : \A j \in hits : k <= j

\* p in s
Contains(s, p) == Find(s, p) # 0

\* s.split(sep)
RECURSIVE Split(_, _)
Split(s, sep) ==
    LET k == Find(s, sep)
    IN IF k = 0 THEN <<s>>
       ELSE <<SubSeq(s, 1, k - 1)>> \o Split(SubSeq(s, k + Len(sep), Len(s)), sep)

\* re.findall(r'\d+', s): the maximal runs of digits, left to right
RECURSIVE FindAllDigits(_)
FindAllDigits(s) ==
    LET starts == {k \in 1..Len(s) : IsDigit(s[k])}
    IN IF starts = {} THEN <<>>
       ELSE LET b == CHOOSE k \in starts : \A j \in starts : k <= j
                stops == {k \in b..Len(s) : k = Len(s) \/ ~IsDigit(s[k + 1])}
                e == CHOOSE k \in stops : \A j \in stops : k <= j
            IN <<SubSeq(s, b, e)>> \o FindAllDigits(SubSeq(s, e + 1, Len(s)))

\* int(s) of a string of decimal digits
RECURSIVE ToInt(_)
ToInt(s) ==
    IF Len(s) = 0 THEN 0
    ELSE 10 * ToInt(SubSeq(s, 1, Len(s) - 1)) + DigitValue(s[Len(s)])

\* str(n) of a natural number
RECURSIVE Digits(_)
Digits(n) ==
    IF n < 10 THEN <<DigitChars[n + 1]>>
    ELSE Digits(n \div 10) \o <<DigitChars[(n % 10) + 1]>>

\* '{:02d}'.format(n): at least two digits, zero-padded
Pad2(n) == IF n < 10 THEN <<"0">> \o Digits(n) ELSE Digits(n)

\* faulty insertion: an occupied slot is overwritten, lst[index] = x
ListInsert_overwriting(lst, index, x) ==
    LET n == Len(lst)
        j == IF index < 0 THEN (IF index + n < 0 THEN 0 ELSE index + n)
             ELSE (IF index > n THEN n ELSE index)
    IN IF j < n THEN [lst EXCEPT ![j + 1] = x] ELSE Append(lst, x)

\* lst.insert(index, x) of a Python list (index 0-based; negative counts from
\* the end, out-of-range indices are clamped)
ListInsert(lst, index, x) ==
    LET n == Len(lst)
        j == IF index < 0 THEN (IF index + n < 0 THEN 0 ELSE index + n)
             ELSE (IF index > n THEN n ELSE index)
    IN SubSeq(lst, 1, j) \o <<x>> \o SubSeq(lst, j + 1, n)

\* os.path.join(folder_path, filename)
PathJoin(folder_path, filename) == folder_path \o S_slash \o filename

\* --------------------------------------------------------- catalog loading

\* faulty iteration: the test marker is looked for before the example marker
load_step_test_marker_first(acc, filename, folder_path, test_type) ==
    IF acc.error \/ ~StartsWith(filename, test_type) THEN acc
    ELSE IF Contains(filename, S_test)
         THEN LET runs == FindAllDigits(Split(filename, S_test)[2])
              IN IF runs = <<>>
                 THEN [acc EXCEPT !.error = TRUE]
                 ELSE [acc EXCEPT !.test_files =
                          ListInsert(@, ToInt(runs[1]) - 1, PathJoin(folder_path, filename))]
    ELSE IF Contains(filename, S_example)
         THEN [acc EXCEPT !.example_files = Append(@, PathJoin(folder_path, filename))]
    ELSE acc

\* one iteration of the loop over os.listdir(folder_path)
load_step(acc, filename, folder_path, test_type) ==
    IF acc.error \/ ~StartsWith(filename, test_type) THEN acc
    ELSE IF Contains(filename, S_example)
         THEN [acc EXCEPT !.example_files = Append(@, PathJoin(folder_path, filename))]
    ELSE IF Contains(filename, S_test)
         THEN LET runs == FindAllDigits(Split(filename, S_test)[2])
              IN IF runs = <<>>
                 THEN [acc EXCEPT !.error = TRUE]      \* [0] of an empty list
                 ELSE [acc EXCEPT !.test_files =
                          ListInsert(@, ToInt(runs[1]) - 1, PathJoin(folder_path, filename))]
    ELSE acc

RECURSIVE load_loop(_, _, _, _)
load_loop(acc, names, folder_path, test_type) ==
    IF names = <<>> THEN acc
    ELSE load_loop(load_step(acc, Head(names), folder_path, test_type),
                   Tail(names), folder_path, test_type)

\* load_audio_files(base_audio_path, test_type), names being os.listdir's result
load_audio_files(base_audio_path, test_type, names) ==
    load_loop([error |-> FALSE, example_files |-> <<>>, test_files |-> <<>>],
              names, base_audio_path, test_type)

\* ------------------------------------------------------------------ scoring

\* faulty ground truth: the token before the last one is looked at
correct_answer_of_token_before_last(file) ==
    LET parts == Split(file, S_us)
    IN IF Len(parts) > 1 /\ StartsWith(parts[Len(parts) - 1], S_ident) THEN S_yes ELSE S_no

\* 'yes' if file.split('_')[-1].startswith('ident') else 'no'
correct_answer_of(file) ==
    LET parts == Split(file, S_us)
    IN IF StartsWith(parts[Len(parts)], S_ident) THEN S_yes ELSE S_no

\* faulty scorer: the no-response case is forgotten
accuracy_without_NA(response, correct_answer) ==
    IF response = correct_answer THEN 1 ELSE 0

\* faulty scorer: the two definite codes are exchanged
accuracy_exchanged(response, correct_answer) ==
    IF response = correct_answer THEN 0
    ELSE IF response = S_NA THEN 99 ELSE 1

\* faulty scorer: no response counts as the answer yes
accuracy_none_as_yes(response, correct_answer) ==
    IF response = correct_answer \/ (response = S_NA /\ correct_answer = S_yes) THEN 1
    ELSE IF response = S_NA THEN 99 ELSE 0

\* 1 if response == correct_answer else (99 if response == "NA" else 0)
accuracy_of(response, correct_answer) ==
    IF response = correct_answer THEN 1
    ELSE IF response = S_NA THEN 99 ELSE 0

\* the translation of the key read to the response returned
translate_response(response) ==
    IF response = S_y THEN S_yes
    ELSE IF response = S_n THEN S_no
    ELSE S_NA

\* -------------------------------------------------------------------- clock

\* datetime.fromtimestamp(t).strftime('%H:%M:%S'), t in ticks, local time = UTC
strftime_HMS(t) ==
    LET secs == t \div TicksPerSec
    IN Pad2((secs \div 3600) % 24) \o S_colon \o Pad2((secs \div 60) % 60)
         \o S_colon \o Pad2(secs % 60)

\* faulty duration: the elapsed time is counted from the start of the session
duration_since_session_start(end_time, start_time) == end_time

\* duration = end_time - start_time
duration_of(end_time, start_time) == end_time - start_time

\* faulty format: the hours start again at 24, as those of a time of day do
duration_str_wrapping_hours(duration) ==
    LET hours == (duration \div (3600 * TicksPerSec)) % 24
        remainder == duration % (3600 * TicksPerSec)
        minutes == remainder \div (60 * TicksPerSec)
        seconds == (remainder % (60 * TicksPerSec)) \div TicksPerSec
    IN Pad2(hours) \o S_colon \o Pad2(minutes) \o S_colon \o Pad2(seconds)

\* divmod(duration, 3600), divmod(remainder, 60) and the '{:02d}' format of the
\* truncated parts; duration in ticks
duration_str_of(duration) ==
    LET hours == duration \div (3600 * TicksPerSec)
        remainder == duration % (3600 * TicksPerSec)
        minutes == remainder \div (60 * TicksPerSec)
        seconds == (remainder % (60 * TicksPerSec)) \div TicksPerSec
    IN Pad2(hours) \o S_colon \o Pad2(minutes) \o S_colon \o Pad2(seconds)

\* ------------------------------------------------ the session's environment

\* the files of the audio folder (os.listdir returns them in any order)
F_melody_example1 == <<"m","e","l","o","d","y","_","e","x","a","m","p","l","e","1","_","i","d","e","n","t","i","c","a","l",".","w","a","v">>
F_melody_example2 == <<"m","e","l","o","d","y","_","e","x","a","m","p","l","e","2","_","d","i","f","f","e","r","e","n","t",".","w","a","v">>
F_melody_test1 == <<"m","e","l","o","d","y","_","t","e","s","t","1","_","d","i","f","f","e","r","e","n","t",".","w","a","v">>
F_melody_test2 == <<"m","e","l","o","d","y","_","t","e","s","t","2","_","i","d","e","n","t","i","c","a","l",".","w","a","v">>
F_rhythm_example1 == <<"r","h","y","t","h","m","_","e","x","a","m","p","l","e","1","_","d","i","f","f","e","r","e","n","t",".","w","a","v">>
F_rhythm_test1 == <<"r","h","y","t","h","m","_","t","e","s","t","1","_","i","d","e","n","t","i","c","a","l",".","w","a","v">>

\* The runs explored. Either source file runs on a full audio folder, listed
\* in one of two orders, with a participant who answers each screen at once;
\* musical_ear.py also runs on a folder of one practice and one test item with
\* a participant who may idle, press keys outside the response window or press
\* unrecognised keys, MaxStray times in all.
Scenarios ==
    { [variant |-> "met", stray |-> 0,
       names |-> <<F_melody_example1, F_melody_example2, F_melody_test1,
                   F_melody_test2, F_rhythm_example1, F_rhythm_test1>>],
      [variant |-> "psd", stray |-> 0,
       names |-> <<F_rhythm_test1, F_rhythm_example1, F_melody_test2,
                   F_melody_test1, F_melody_example2, F_melody_example1>>],
      [variant |-> "met", stray |-> MaxStray,
       names |-> <<F_melody_test1, F_melody_example1>>] }

\* the Subject_ID values typed into the dialog
SubjectIds == {"P01"}

\* cur_date of the dialog, datetime.now().strftime("%Y-%m-%d %H:%M")
CurDate == "2023-05-06 10:00"

\* the keys of the keyboard: the two recognised ones and another one
Keys == {S_y, S_n, S_x}

\* keyList=['y', 'n']
keyList == {S_y, S_n}

S_pics == <<"p","i","c","s">>
S_results == <<"r","e","s","u","l","t","s">>
S_psd_results == <<"p","s","d","_","r","e","s","u","l","t","s">>

\* main(): base_audio_path, base_image_path, results_path
base_audio_path(v) == IF v = "psd" THEN S_psd_audio ELSE S_audio
base_image_path(v) == S_pics
results_path(v) == IF v = "psd" THEN S_psd_results ELSE S_results

\* the two result files (their names carry the Subject_ID and a timestamp)
practice_output_filename == "practice_results.csv"
test_output_filename == "test_results.csv"

\* the header line main() writes to both files
header_line(v) ==
    [header |-> IF v = "psd"
                THEN <<"Subject_ID", "Date", "trial", "type", "phase", "stimulus", "response",
                       "correct", "accuracy", "start_time", "end_time", "duration ">>
                ELSE <<"experiment", "subject_ID", "date", "trial", "type", "phase",
                       "stimulus", "response", "correct", "accuracy", "start_time",
                       "end_time", "duration ">>]

\* instruction_texts of main(); each text is abbreviated to its first words
instruction_texts ==
    (S_general_intro :> "Willkommen zum Test")
    @@ (S_melody \o S_part1 :> "Melodie. Sie werden nun immer zwei kurze Melodien hoeren")
    @@ (S_melody \o S_practice_ \o S_yes :> "In diesem Fall waren die Melodien identisch")
    @@ (S_melody \o S_practice_ \o S_no :> "In diesem Fall waren die Melodien nicht identisch")
    @@ (S_melody \o S_part2 :> "Jetzt beginnt der Test. Melodie-Paare")
    @@ (S_rhythm \o S_part1 :> "Rhythmus. Sie werden nun immer zwei kurze Rhythmen hoeren")
    @@ (S_rhythm \o S_practice_ \o S_yes :> "In diesem Fall waren die Rhythmen identisch")
    @@ (S_rhythm \o S_practice_ \o S_no :> "In diesem Fall waren die Rhythmen nicht identisch")
    @@ (S_rhythm \o S_part2 :> "Jetzt beginnt der Test. Rhythmus-Paare")
    @@ (S_end :> "Sie haben es geschafft!")

\* questions of musical_ear_psd.py: label and type of each
questions ==
    << [label |-> "hoeren_schlecht_ja", type |-> "bool"],
       [label |-> "instrument_list", type |-> "text"],
       [label |-> "chor_singen_ja", type |-> "bool"],
       [label |-> "chor_dauer", type |-> "text"],
       [label |-> "band_singen_ja", type |-> "bool"],
       [label |-> "band_dauer", type |-> "text"],
       [label |-> "musikschule_besucht_ja", type |-> "bool"],
       [label |-> "musikschule_dauer", type |-> "text"],
       [label |-> "musik_hoeren", type |-> "text"] >>

\* what the participant enters in a questionnaire dialog: the field is left as
\* it is shown (initial=False, initial="")
dialog_data(question) == IF question.type = "bool" THEN "False" ELSE ""

musicality_psd_filename == "musicality_PSD.csv"

\* -------------------------------------------------------------------- state

VARIABLES
    variant,           \* which source file runs: "met" (musical_ear.py) or "psd"
    names,             \* os.listdir(folder_path) of the audio folder
    dirs,              \* the directories that exist
    files,             \* the files written: file name -> its lines
    now,               \* time.time(), in ticks
    keyBuffer,         \* psychopy's keyboard event buffer
    budget,            \* participant events beyond the plain run still allowed
    pc,                \* the statement the program is at
    ret,               \* where display_instructions returns to
    participant_info,  \* main(): the dialog's result
    catalog,           \* main(): test type -> (example_files, test_files)
    starting_tests,    \* main(): the shuffled order of the two sub-tests
    mainIdx,           \* main(): i of "for i, test in enumerate(starting_tests)"
    test_type,         \* musical_ear_test(): test_type
    phase,             \* musical_ear_test(): which loop runs, "practice" or "test"
    i,                 \* musical_ear_test(): i of the running loop
    results,           \* musical_ear_test(): results
    start_time,        \* musical_ear_test(): start_time
    start_time_str,    \* musical_ear_test(): start_time_str
    timer,             \* play_stimulus_and_display_prompt(): the instant the
                       \* CountdownTimer reaches zero
    response,          \* the response read, then translated and returned
    scored,            \* correct_answer, accuracy, end_time_str, duration_str
    questionnaire_data,\* musical_ear_psd.py main(): show_questionnaire's result
    q,                 \* show_questionnaire(): the questions answered so far
    correct_responses, \* musical_ear_psd.py main(): correct_responses
    number_trials,     \* musical_ear_psd.py main(): number_trials
    arrivals,          \* history: the key presses of the running trial
    log                \* history: what Player, Display and the files were asked to do

envVars == <<variant, names, dirs>>
mainVars == <<participant_info, catalog, starting_tests, mainIdx>>
testVars == <<test_type, phase, i, results, start_time, start_time_str>>
trialVars == <<timer, response, scored>>
psdVars == <<questionnaire_data, q, correct_responses, number_trials>>
vars == <<variant, names, dirs, files, now, keyBuffer, budget, pc, ret,
          participant_info, catalog, starting_tests, mainIdx, test_type, phase, i,
          results, start_time, start_time_str, timer, response, scored,
          questionnaire_data, q, correct_responses, number_trials, arrivals, log>>

Init ==
    /\ \E sc \in Scenarios :
         variant = sc.variant /\ names = sc.names /\ budget = sc.stray
    /\ dirs \in {{}, {base_audio_path(variant)}}
    /\ files = <<>>
    /\ now = 0
    /\ keyBuffer = <<>>
    /\ pc = "check_paths"
    /\ ret = ""
    /\ participant_info = <<>>
    /\ catalog = <<>>
    /\ starting_tests = <<>>
    /\ mainIdx = 0
    /\ test_type = <<>>
    /\ phase = ""
    /\ i = 0
    /\ results = <<>>
    /\ start_time = 0
    /\ start_time_str = <<>>
    /\ timer = 0
    /\ response = None
    /\ scored = <<>>
    /\ questionnaire_data = <<>>
    /\ q = 0
    /\ correct_responses = (S_melody :> 0) @@ (S_rhythm :> 0)
    /\ number_trials = (S_melody :> 0) @@ (S_rhythm :> 0)
    /\ arrivals = <<>>
    /\ log = <<>>

\* --------------------------------------------------------------- primitives

\* open(name, 'w') ... write(line): the file is created or truncated
write_file(fs, name, line) ==
    [n \in (DOMAIN fs) \cup {name} |-> IF n = name THEN <<line>> ELSE fs[n]]

\* faulty append: the file is opened with 'w', which truncates it
append_file_truncating(fs, name, line) ==
    [n \in (DOMAIN fs) \cup {name} |-> IF n = name THEN <<line>> ELSE fs[n]]

\* faulty append: the line is put right after the header
append_file_after_header(fs, name, line) ==
    [n \in (DOMAIN fs) \cup {name} |->
        IF n = name
        THEN (IF name \in DOMAIN fs /\ fs[name] # <<>>
              THEN <<Head(fs[name]), line>> \o Tail(fs[name]) ELSE <<line>>)
        ELSE fs[n]]

\* open(name, 'a') ... write(line): the line is added at the end
append_file(fs, name, line) ==
    [n \in (DOMAIN fs) \cup {name} |->
        IF n = name THEN (IF name \in DOMAIN fs THEN Append(fs[name], line) ELSE <<line>>)
        ELSE fs[n]]

\* display_instructions(win, instruction_text) up to win.flip(): the text is shown;
\* event.waitKeys() follows in WaitKeys. before: what the caller logs first
ShowInstructions(key, return_to, before) ==
    IF key \in DOMAIN instruction_texts
    THEN /\ log' = log \o before
                       \o <<[ev |-> "instructions", text |-> instruction_texts[key]]>>
         /\ pc' = "waitKeys"
         /\ ret' = return_to
    ELSE /\ pc' = "raised"                        \* KeyError
         /\ UNCHANGED <<log, ret>>

\* event.waitKeys() and the win.flip() after it: the keyboard buffer is cleared,
\* the first key pressed then ends the wait
WaitKeys ==
    /\ pc = "waitKeys"
    /\ \E idle \in 0..(IF budget > 0 THEN 1 ELSE 0) :
         /\ now' = now + idle
         /\ budget' = budget - idle
    /\ keyBuffer' = <<>>
    /\ pc' = ret
    /\ UNCHANGED <<envVars, psdVars, files, ret, mainVars, testVars, trialVars, arrivals, log>>

\* --------------------------------------------------------------------- main

\* faulty check: a missing audio folder is created like the other two
check_paths_creating_audio ==
    /\ pc = "check_paths"
    /\ dirs' = dirs \cup {base_audio_path(variant), base_image_path(variant),
                          results_path(variant)}
    /\ pc' = "get_participant_info"
    /\ UNCHANGED <<variant, names, psdVars, files, now, keyBuffer, budget, ret, mainVars, testVars,
                   trialVars, arrivals, log>>

\* check_paths(base_audio_path, base_image_path, results_path)
check_paths ==
    /\ pc = "check_paths"
    /\ IF base_audio_path(variant) \notin dirs
       THEN /\ pc' = "raised"
            /\ UNCHANGED dirs
       ELSE /\ dirs' = dirs \cup {base_image_path(variant), results_path(variant)}
            /\ pc' = "get_participant_info"
    /\ UNCHANGED <<variant, names, psdVars, files, now, keyBuffer, budget, ret, mainVars, testVars,
                   trialVars, arrivals, log>>

\* faulty dialog: a cancelled dialog returns nothing and the session goes on
get_participant_info_cancel_ignored ==
    /\ pc = "get_participant_info"
    /\ \E ok \in BOOLEAN, id \in SubjectIds :
         IF ok
         THEN /\ participant_info' =
                    IF variant = "psd"
                    THEN [cur_date |-> CurDate, Subject_ID |-> id]
                    ELSE [experiment |-> "musical_ear_test", cur_date |-> CurDate,
                          Subject_ID |-> id]
              /\ pc' = IF variant = "psd" THEN "show_questionnaire" ELSE "load"
         ELSE /\ pc' = IF variant = "psd" THEN "show_questionnaire" ELSE "load"
              /\ UNCHANGED participant_info
    /\ UNCHANGED <<envVars, psdVars, files, now, keyBuffer, budget, ret, catalog, starting_tests,
                   mainIdx, testVars, trialVars, arrivals, log>>

\* get_participant_info(): the dialog is confirmed or cancelled (core.quit())
get_participant_info ==
    /\ pc = "get_participant_info"
    /\ \E ok \in BOOLEAN, id \in SubjectIds :
         IF ok
         THEN /\ participant_info' =
                    IF variant = "psd"
                    THEN [cur_date |-> CurDate, Subject_ID |-> id]
                    ELSE [experiment |-> "musical_ear_test", cur_date |-> CurDate,
                          Subject_ID |-> id]
              /\ pc' = IF variant = "psd" THEN "show_questionnaire" ELSE "load"
         ELSE /\ pc' = "quit"
              /\ UNCHANGED participant_info
    /\ UNCHANGED <<envVars, psdVars, files, now, keyBuffer, budget, ret, catalog, starting_tests,
                   mainIdx, testVars, trialVars, arrivals, log>>

\* show_questionnaire(questions): one dialog, confirmed or cancelled (core.quit())
show_questionnaire ==
    /\ pc = "show_questionnaire"
    /\ IF q < Len(questions)
       THEN \E ok \in BOOLEAN :
              IF ok
              THEN /\ questionnaire_data' =
                         (questions[q + 1].label :> dialog_data(questions[q + 1]))
                         @@ questionnaire_data
                   /\ q' = q + 1
                   /\ UNCHANGED pc
              ELSE /\ pc' = "quit"
                   /\ UNCHANGED <<questionnaire_data, q>>
       ELSE /\ pc' = "load"
            /\ UNCHANGED <<questionnaire_data, q>>
    /\ UNCHANGED <<envVars, files, now, keyBuffer, budget, ret, mainVars, testVars,
                   trialVars, correct_responses, number_trials, arrivals, log>>

\* the two lines of the questionnaire file
musicality_lines(info, data) ==
    << <<"Subject_ID", "Date">> \o [n \in 1..Len(questions) |-> questions[n].label],
       <<info.Subject_ID, info.cur_date>>
         \o [n \in 1..Len(questions) |->
               LET answer == data[questions[n].label]
               IN IF questions[n].type = "bool" THEN answer
                  ELSE IF answer = "" THEN "NA" ELSE answer] >>

\* musical_ear_psd.py main(): with open(musicality_psd_filename, 'w') as file: ...
create_musicality_file ==
    /\ pc = "create_musicality"
    /\ files' = [n \in (DOMAIN files) \cup {musicality_psd_filename} |->
                   IF n = musicality_psd_filename
                   THEN musicality_lines(participant_info, questionnaire_data)
                   ELSE files[n]]
    /\ pc' = "create_practice"
    /\ UNCHANGED <<envVars, psdVars, now, keyBuffer, budget, ret, mainVars, testVars,
                   trialVars, arrivals, log>>

\* faulty loading: the error of a file without ordinal is passed over
load_catalogs_ignoring_error ==
    /\ pc = "load"
    /\ LET m == load_audio_files(base_audio_path(variant), S_melody, names)
           r == load_audio_files(base_audio_path(variant), S_rhythm, names)
       IN /\ catalog' = (S_melody :> m) @@ (S_rhythm :> r)
          /\ pc' = "shuffle"
    /\ UNCHANGED <<envVars, psdVars, files, now, keyBuffer, budget, ret, participant_info,
                   starting_tests, mainIdx, testVars, trialVars, arrivals, log>>

\* the two load_audio_files calls of main()
load_catalogs ==
    /\ pc = "load"
    /\ LET m == load_audio_files(base_audio_path(variant), S_melody, names)
           r == load_audio_files(base_audio_path(variant), S_rhythm, names)
       IN IF m.error \/ r.error
          THEN /\ pc' = "raised"                  \* IndexError
               /\ UNCHANGED catalog
          ELSE /\ catalog' = (S_melody :> m) @@ (S_rhythm :> r)
               /\ pc' = "shuffle"
    /\ UNCHANGED <<envVars, psdVars, files, now, keyBuffer, budget, ret, participant_info,
                   starting_tests, mainIdx, testVars, trialVars, arrivals, log>>

\* faulty draw: two independent choices instead of a permutation
shuffle_with_repetition ==
    /\ pc = "shuffle"
    /\ starting_tests' \in {<<a, b>> : a, b \in {S_melody, S_rhythm}}
    /\ pc' = IF variant = "psd" THEN "create_musicality" ELSE "create_practice"
    /\ UNCHANGED <<envVars, psdVars, files, now, keyBuffer, budget, ret, participant_info, catalog,
                   mainIdx, testVars, trialVars, arrivals, log>>

\* starting_tests = ['melody', 'rhythm']; random.shuffle(starting_tests)
shuffle ==
    /\ pc = "shuffle"
    /\ starting_tests' \in {<<S_melody, S_rhythm>>, <<S_rhythm, S_melody>>}
    /\ pc' = IF variant = "psd" THEN "create_musicality" ELSE "create_practice"
    /\ UNCHANGED <<envVars, psdVars, files, now, keyBuffer, budget, ret, participant_info, catalog,
                   mainIdx, testVars, trialVars, arrivals, log>>

\* faulty creation: both iterations open the practice file
create_output_file_practice_twice ==
    /\ pc \in {"create_practice", "create_test"}
    /\ files' = write_file(files, practice_output_filename, header_line(variant))
    /\ pc' = IF pc = "create_practice" THEN "create_test" ELSE "main_loop"
    /\ UNCHANGED <<envVars, psdVars, now, keyBuffer, budget, ret, mainVars, testVars, trialVars,
                   arrivals, log>>

\* for output_file in [practice_output_filename, test_output_filename]: one
\* iteration, writing the header
create_output_file ==
    /\ pc \in {"create_practice", "create_test"}
    /\ files' = write_file(files,
                           IF pc = "create_practice" THEN practice_output_filename
                           ELSE test_output_filename,
                           header_line(variant))
    /\ pc' = IF pc = "create_practice" THEN "create_test" ELSE "main_loop"
    /\ UNCHANGED <<envVars, psdVars, now, keyBuffer, budget, ret, mainVars, testVars, trialVars,
                   arrivals, log>>

\* faulty loop: the general instructions are shown before each sub-test
main_loop_intro_before_each ==
    /\ pc = "main_loop"
    /\ IF mainIdx < Len(starting_tests)
       THEN ShowInstructions(S_general_intro, "musical_ear_test", <<>>)
       ELSE IF variant = "psd"
            THEN /\ log' = Append(log, [ev |-> "instructions", text |-> "Ergebnis",
                                        correct |-> correct_responses,
                                        trials |-> number_trials])
                 /\ pc' = "waitKeys"
                 /\ ret' = "end_instructions"
            ELSE /\ pc' = "end_instructions"
                 /\ UNCHANGED <<log, ret>>
    /\ UNCHANGED <<envVars, psdVars, files, now, keyBuffer, budget, mainVars, testVars,
                   trialVars, arrivals>>

\* for i, test in enumerate(starting_tests): the general instructions before the
\* first sub-test, then the call of musical_ear_test; after the loop,
\* musical_ear_psd.py shows the numbers of correct responses
main_loop ==
    /\ pc = "main_loop"
    /\ IF mainIdx < Len(starting_tests)
       THEN IF mainIdx = 0
            THEN ShowInstructions(S_general_intro, "musical_ear_test", <<>>)
            ELSE /\ pc' = "musical_ear_test"
                 /\ UNCHANGED <<log, ret>>
       ELSE IF variant = "psd"
            THEN /\ log' = Append(log, [ev |-> "instructions", text |-> "Ergebnis",
                                        correct |-> correct_responses,
                                        trials |-> number_trials])
                 /\ pc' = "waitKeys"
                 /\ ret' = "end_instructions"
            ELSE /\ pc' = "end_instructions"
                 /\ UNCHANGED <<log, ret>>
    /\ UNCHANGED <<envVars, psdVars, files, now, keyBuffer, budget, mainVars, testVars,
                   trialVars, arrivals>>

\* faulty count: the practice outcomes are counted too
count_correct_any_phase(rs) ==
    Cardinality({n \in 1..Len(rs) : rs[n].accuracy = 1})

\* sum(1 for result in results if result['accuracy'] == 1 and result['phase'] == 'test')
count_correct(rs) ==
    Cardinality({n \in 1..Len(rs) : rs[n].accuracy = 1 /\ rs[n].phase = "test"})

\* musical_ear_test returned (musical_ear_psd.py counts the correct responses
\* and the trials of the sub-test): the next iteration of main()'s loop
main_next ==
    /\ pc = "returned"
    /\ IF variant = "psd"
       THEN /\ correct_responses' = [correct_responses EXCEPT ![test_type] = count_correct(results)]
            /\ number_trials' = [number_trials EXCEPT
                                    ![test_type] = Len(catalog[test_type].test_files)]
       ELSE UNCHANGED <<correct_responses, number_trials>>
    /\ mainIdx' = mainIdx + 1
    /\ pc' = "main_loop"
    /\ UNCHANGED <<envVars, questionnaire_data, q, files, now, keyBuffer, budget, ret,
                   participant_info, catalog, starting_tests, testVars, trialVars,
                   arrivals, log>>

\* display_instructions(win, instruction_texts['end'])
end_instructions ==
    /\ pc = "end_instructions"
    /\ ShowInstructions(S_end, "close", <<>>)
    /\ UNCHANGED <<envVars, psdVars, files, now, keyBuffer, budget, mainVars, testVars,
                   trialVars, arrivals>>

\* win.close()
close ==
    /\ pc = "close"
    /\ pc' = "done"
    /\ UNCHANGED <<envVars, psdVars, files, now, keyBuffer, budget, ret, mainVars, testVars,
                   trialVars, arrivals, log>>

\* --------------------------------------------------------- musical_ear_test

\* faulty routing: the two files are exchanged
output_filename_exchanged(result, practice_filename, test_filename) ==
    IF result.phase = "practice" THEN test_filename ELSE practice_filename

\* output_filename = practice_filename if result['phase'] == 'practice' else test_filename
output_filename_of(result, practice_filename, test_filename) ==
    IF result.phase = "practice" THEN practice_filename ELSE test_filename

\* faulty line: musical_ear_psd.py leaves out the date as well
csv_line_psd_without_date(result, info, v) ==
    IF v = "psd"
    THEN [Subject_ID |-> info.Subject_ID] @@ result
    ELSE [experiment |-> info.experiment, Subject_ID |-> info.Subject_ID,
          cur_date |-> info.cur_date] @@ result

\* the line append_result_to_csv formats: the participant's fields, then the
\* result's (musical_ear_psd.py has no experiment field)
csv_line(result, info, v) ==
    IF v = "psd"
    THEN [Subject_ID |-> info.Subject_ID, cur_date |-> info.cur_date] @@ result
    ELSE [experiment |-> info.experiment, Subject_ID |-> info.Subject_ID,
          cur_date |-> info.cur_date] @@ result

\* append_result_to_csv(result, practice_filename, test_filename, participant_info)
append_result_to_csv(fs, result, practice_filename, test_filename, info, v) ==
    append_file(fs, output_filename_of(result, practice_filename, test_filename),
                csv_line(result, info, v))

\* feedback_text = "Richtig!" if correct else "Falsch!"
feedback_text(correct) == IF correct THEN "Richtig!" ELSE "Falsch!"

\* faulty key: the instructions are chosen by the participant's answer
practice_instruction_key_by_answer(type, answer, correct_answer) ==
    type \o S_practice_ \o answer

\* the key of the instructions shown after a practice trial
practice_instruction_key(type, answer, correct_answer) ==
    type \o S_practice_ \o correct_answer

\* faulty iteration: the list is walked from its end
current_file_reversed ==
    IF phase = "practice"
    THEN catalog[test_type].example_files[Len(catalog[test_type].example_files) - i]
    ELSE catalog[test_type].test_files[Len(catalog[test_type].test_files) - i]

\* the file of the running iteration: example_file or test_file
current_file ==
    IF phase = "practice" THEN catalog[test_type].example_files[i + 1]
    ELSE catalog[test_type].test_files[i + 1]

\* 'trial': i + 1
trial_number == i + 1

\* total_trials of the running loop
total_trials ==
    IF phase = "practice" THEN Len(catalog[test_type].example_files)
    ELSE Len(catalog[test_type].test_files)

\* faulty start: results is a list shared by the calls and is not emptied
musical_ear_test_keeping_results ==
    /\ pc = "musical_ear_test"
    /\ test_type' = starting_tests[mainIdx + 1]
    /\ results' = results
    /\ start_time' = now
    /\ start_time_str' = strftime_HMS(now)
    /\ phase' = "practice"
    /\ i' = 0
    /\ ShowInstructions(test_type' \o S_part1, "loop",
                        <<[ev |-> "musical_ear_test", type |-> test_type', t |-> now]>>)
    /\ UNCHANGED <<envVars, psdVars, files, now, keyBuffer, budget, mainVars, trialVars, arrivals>>

\* the start of musical_ear_test: results = [], start_time, the part1 instructions
musical_ear_test ==
    /\ pc = "musical_ear_test"
    /\ test_type' = starting_tests[mainIdx + 1]
    /\ results' = <<>>
    /\ start_time' = now
    /\ start_time_str' = strftime_HMS(now)
    /\ phase' = "practice"
    /\ i' = 0
    /\ ShowInstructions(test_type' \o S_part1, "loop",
                        <<[ev |-> "musical_ear_test", type |-> test_type', t |-> now]>>)
    /\ UNCHANGED <<envVars, psdVars, files, now, keyBuffer, budget, mainVars, trialVars, arrivals>>

\* faulty loop head: the part2 instructions are left out
practice_loop_without_part2 ==
    /\ pc = "loop" /\ phase = "practice"
    /\ IF i < total_trials
       THEN /\ pc' = "play"
            /\ UNCHANGED <<phase, i>>
       ELSE /\ phase' = "test"
            /\ i' = 0
            /\ UNCHANGED pc
    /\ UNCHANGED <<envVars, psdVars, files, now, keyBuffer, budget, ret, mainVars, test_type,
                   results, start_time, start_time_str, trialVars, arrivals, log>>

\* the head of "for i, example_file in enumerate(example_files)"; after the
\* last practice trial the part2 instructions
practice_loop ==
    /\ pc = "loop" /\ phase = "practice"
    /\ IF i < total_trials
       THEN /\ pc' = "play"
            /\ UNCHANGED <<phase, i, log, ret>>
       ELSE /\ phase' = "test"
            /\ i' = 0
            /\ ShowInstructions(test_type \o S_part2, "loop", <<>>)
    /\ UNCHANGED <<envVars, psdVars, files, now, keyBuffer, budget, mainVars, test_type, results,
                   start_time, start_time_str, trialVars, arrivals>>

\* faulty loop head: the loop is left after a trial without response
test_loop_stops_without_response ==
    /\ pc = "loop" /\ phase = "test"
    /\ pc' = IF i < total_trials /\ (i = 0 \/ response # S_NA) THEN "play" ELSE "returned"
    /\ UNCHANGED <<envVars, psdVars, files, now, keyBuffer, budget, ret, mainVars, testVars,
                   trialVars, arrivals, log>>

\* the head of "for i, test_file in enumerate(test_files)"; after the last test
\* trial, return results
test_loop ==
    /\ pc = "loop" /\ phase = "test"
    /\ pc' = IF i < total_trials THEN "play" ELSE "returned"
    /\ UNCHANGED <<envVars, psdVars, files, now, keyBuffer, budget, ret, mainVars, testVars,
                   trialVars, arrivals, log>>

\* ----------------------------------------- play_stimulus_and_display_prompt

\* stimulus.play(), the trial's texts, image and progress bar, win.flip()
play ==
    /\ pc = "play"
    /\ log' = Append(log, [ev |-> "play", stimulus |-> current_file, t |-> now])
    /\ arrivals' = <<>>
    /\ pc' = "wait"
    /\ UNCHANGED <<envVars, psdVars, files, now, keyBuffer, budget, ret, mainVars, testVars,
                   trialVars>>

\* core.wait(stimulus.getDuration() + 1)
wait_stimulus ==
    /\ pc = "wait"
    /\ now' = now + (StimSeconds + 1) * TicksPerSec
    /\ pc' = "clearEvents"
    /\ UNCHANGED <<envVars, psdVars, files, keyBuffer, budget, ret, mainVars, testVars, trialVars,
                   arrivals, log>>

\* faulty start of the window: the keyboard buffer is not cleared
clearEvents_without_clearing ==
    /\ pc = "clearEvents"
    /\ UNCHANGED keyBuffer
    /\ response' = None
    /\ timer' = IF phase = "test" THEN now + TimeLimit * TicksPerSec ELSE timer
    /\ pc' = "while"
    /\ UNCHANGED <<envVars, psdVars, files, now, budget, ret, mainVars, testVars, scored,
                   arrivals, log>>

\* event.clearEvents(eventType='keyboard'), the buttons, response = None and,
\* with a time limit, timer = core.CountdownTimer(time_limit)
clearEvents ==
    /\ pc = "clearEvents"
    /\ keyBuffer' = <<>>
    /\ response' = None
    /\ timer' = IF phase = "test" THEN now + TimeLimit * TicksPerSec ELSE timer
    /\ pc' = "while"
    /\ UNCHANGED <<envVars, psdVars, files, now, budget, ret, mainVars, testVars, scored,
                   arrivals, log>>

\* timer.getTime()
timer_getTime == timer - now

\* faulty loop condition: "time_limit is None" is forgotten
window_open_timer_only == timer_getTime > 0

\* time_limit is None or timer.getTime() > 0
window_open == phase = "practice" \/ timer_getTime > 0

\* faulty loop: the pass takes no time, so that a countdown never runs out
while_flip_clock_stopped ==
    /\ pc = "while"
    /\ IF window_open
       THEN /\ UNCHANGED now
            /\ pc' = "getKeys"
       ELSE /\ pc' = "translate"
            /\ UNCHANGED now
    /\ UNCHANGED <<envVars, psdVars, files, keyBuffer, budget, ret, mainVars, testVars, trialVars,
                   arrivals, log>>

\* while time_limit is None or timer.getTime() > 0: draw the prompt and the
\* buttons, win.flip()
while_flip ==
    /\ pc = "while"
    /\ IF window_open
       THEN /\ now' = now + PollTicks
            /\ pc' = "getKeys"
       ELSE /\ pc' = "translate"
            /\ UNCHANGED now
    /\ UNCHANGED <<envVars, psdVars, files, keyBuffer, budget, ret, mainVars, testVars, trialVars,
                   arrivals, log>>

\* faulty poll: the last key read becomes the response, response = key_press[-1]
getKeys_last_key ==
    /\ pc = "getKeys"
    /\ LET key_press == SelectSeq(keyBuffer, LAMBDA k : k \in keyList)
       IN /\ keyBuffer' = SelectSeq(keyBuffer, LAMBDA k : k \notin keyList)
          /\ IF key_press # <<>>
             THEN /\ response' = key_press[Len(key_press)]
                  /\ pc' = "translate"
                  /\ UNCHANGED budget
             ELSE /\ phase = "practice" => budget > 0
                  /\ budget' = IF phase = "practice" THEN budget - 1 ELSE budget
                  /\ pc' = "while"
                  /\ UNCHANGED response
    /\ UNCHANGED <<envVars, psdVars, files, now, ret, mainVars, testVars, timer, scored, arrivals,
                   log>>

\* key_press = event.getKeys(keyList=['y', 'n']): the buffered keys of keyList,
\* which leave the buffer; if key_press: response = key_press[0]; break.
\* A practice poll that finds no key is the participant idling.
getKeys ==
    /\ pc = "getKeys"
    /\ LET key_press == SelectSeq(keyBuffer, LAMBDA k : k \in keyList)
       IN /\ keyBuffer' = SelectSeq(keyBuffer, LAMBDA k : k \notin keyList)
          /\ IF key_press # <<>>
             THEN /\ response' = key_press[1]
                  /\ pc' = "translate"
                  /\ UNCHANGED budget
             ELSE /\ phase = "practice" => budget > 0
                  /\ budget' = IF phase = "practice" THEN budget - 1 ELSE budget
                  /\ pc' = "while"
                  /\ UNCHANGED response
    /\ UNCHANGED <<envVars, psdVars, files, now, ret, mainVars, testVars, timer, scored, arrivals,
                   log>>

\* faulty return: core.wait(1) is left out
translate_without_wait ==
    /\ pc = "translate"
    /\ response' = translate_response(response)
    /\ UNCHANGED now
    /\ log' = Append(log, [ev |-> "response", response |-> response', t |-> now])
    /\ pc' = "score"
    /\ UNCHANGED <<envVars, psdVars, files, keyBuffer, budget, ret, mainVars, testVars, timer,
                   scored, arrivals>>

\* the translation of response, win.flip(), core.wait(1), return response
translate ==
    /\ pc = "translate"
    /\ response' = translate_response(response)
    /\ now' = now + TicksPerSec
    /\ log' = Append(log, [ev |-> "response", response |-> response', t |-> now])
    /\ pc' = "score"
    /\ UNCHANGED <<envVars, psdVars, files, keyBuffer, budget, ret, mainVars, testVars, timer,
                   scored, arrivals>>

\* the participant presses a key during a trial. The first recognised key
\* pressed once the response loop runs belongs to the plain run; any other
\* press is a stray one.
KeyPress ==
    /\ pc \in {"wait", "clearEvents", "while", "getKeys", "translate"}
    /\ \E k \in Keys :
         LET open == pc \in {"while", "getKeys"}
             plain == /\ open
                      /\ k \in keyList
                      /\ \A n \in 1..Len(arrivals) :
                            ~(arrivals[n].open /\ arrivals[n].key \in keyList)
         IN /\ plain \/ budget > 0
            /\ budget' = IF plain THEN budget ELSE budget - 1
            /\ keyBuffer' = Append(keyBuffer, k)
            /\ arrivals' = Append(arrivals,
                   [key |-> k, open |-> open,
                    positive |-> open /\ (phase = "practice" \/ timer_getTime > 0)])
    /\ UNCHANGED <<envVars, psdVars, files, now, pc, ret, mainVars, testVars, trialVars, log>>

\* ------------------------------------------------ scoring and recording

\* faulty scoring: a first trial without response counts as wrong
score_first_trial_differently ==
    /\ pc = "score"
    /\ LET correct_answer == correct_answer_of(current_file)
       IN scored' = [correct_answer |-> correct_answer,
                     accuracy |-> IF i = 0 /\ response = S_NA THEN 0
                                  ELSE accuracy_of(response, correct_answer),
                     end_time_str |-> strftime_HMS(now),
                     duration_str |-> duration_str_of(duration_of(now, start_time))]
    /\ pc' = "record"
    /\ UNCHANGED <<envVars, psdVars, files, now, keyBuffer, budget, ret, mainVars, testVars, timer,
                   response, arrivals, log>>

\* correct_answer, accuracy, end_time, end_time_str, duration, duration_str
score ==
    /\ pc = "score"
    /\ LET correct_answer == correct_answer_of(current_file)
       IN scored' = [correct_answer |-> correct_answer,
                     accuracy |-> accuracy_of(response, correct_answer),
                     end_time_str |-> strftime_HMS(now),
                     duration_str |-> duration_str_of(duration_of(now, start_time))]
    /\ pc' = "record"
    /\ UNCHANGED <<envVars, psdVars, files, now, keyBuffer, budget, ret, mainVars, testVars, timer,
                   response, arrivals, log>>

\* faulty recording: the feedback and the debrief follow in both phases
record_with_feedback_in_both_phases ==
    /\ pc = "record"
    /\ LET result == [trial |-> trial_number, type |-> test_type, phase |-> phase,
                      stimulus |-> current_file, response |-> response,
                      correct |-> scored.correct_answer, accuracy |-> scored.accuracy,
                      start_time |-> start_time_str, end_time |-> scored.end_time_str,
                      duration |-> scored.duration_str]
           output_filename == output_filename_of(result, practice_output_filename,
                                                 test_output_filename)
       IN /\ results' = Append(results, result)
          /\ \E written \in BOOLEAN :
               IF written
               THEN /\ files' = append_result_to_csv(files, result, practice_output_filename,
                                                     test_output_filename, participant_info,
                                                     variant)
                    /\ log' = Append(log, [ev |-> "append", t |-> now,
                                           file |-> output_filename,
                                           line |-> Len(files'[output_filename])])
                    /\ pc' = "feedback"
                    /\ UNCHANGED i
               ELSE /\ pc' = "raised"                 \* OSError
                    /\ UNCHANGED <<files, log, i>>
    /\ UNCHANGED <<envVars, psdVars, now, keyBuffer, budget, ret, mainVars, test_type, phase,
                   start_time, start_time_str, trialVars, arrivals>>

\* faulty recording: the rows are kept in results, to be written later
record_held_in_memory ==
    /\ pc = "record"
    /\ LET result == [trial |-> trial_number, type |-> test_type, phase |-> phase,
                      stimulus |-> current_file, response |-> response,
                      correct |-> scored.correct_answer, accuracy |-> scored.accuracy,
                      start_time |-> start_time_str, end_time |-> scored.end_time_str,
                      duration |-> scored.duration_str]
       IN results' = Append(results, result)
    /\ IF phase = "practice"
       THEN /\ pc' = "feedback"
            /\ UNCHANGED i
       ELSE /\ pc' = "loop"
            /\ i' = i + 1
    /\ UNCHANGED <<envVars, psdVars, files, now, keyBuffer, budget, ret, mainVars, test_type,
                   phase, start_time, start_time_str, trialVars, arrivals, log>>

\* faulty recording: a failure of the append is caught and the trial goes on
record_error_swallowed ==
    /\ pc = "record"
    /\ LET result == [trial |-> trial_number, type |-> test_type, phase |-> phase,
                      stimulus |-> current_file, response |-> response,
                      correct |-> scored.correct_answer, accuracy |-> scored.accuracy,
                      start_time |-> start_time_str, end_time |-> scored.end_time_str,
                      duration |-> scored.duration_str]
           output_filename == output_filename_of(result, practice_output_filename,
                                                 test_output_filename)
       IN /\ results' = Append(results, result)
          /\ \E written \in BOOLEAN :
               IF written
               THEN /\ files' = append_result_to_csv(files, result, practice_output_filename,
                                                     test_output_filename, participant_info,
                                                     variant)
                    /\ log' = Append(log, [ev |-> "append", t |-> now,
                                           file |-> output_filename,
                                           line |-> Len(files'[output_filename])])
               ELSE UNCHANGED <<files, log>>
    /\ IF phase = "practice"
       THEN /\ pc' = "feedback"
            /\ UNCHANGED i
       ELSE /\ pc' = "loop"
            /\ i' = i + 1
    /\ UNCHANGED <<envVars, psdVars, now, keyBuffer, budget, ret, mainVars, test_type, phase,
                   start_time, start_time_str, trialVars, arrivals>>

\* faulty recording: a test trial without response is run again
record_retrying_missed_trial ==
    /\ pc = "record"
    /\ LET result == [trial |-> trial_number, type |-> test_type, phase |-> phase,
                      stimulus |-> current_file, response |-> response,
                      correct |-> scored.correct_answer, accuracy |-> scored.accuracy,
                      start_time |-> start_time_str, end_time |-> scored.end_time_str,
                      duration |-> scored.duration_str]
           output_filename == output_filename_of(result, practice_output_filename,
                                                 test_output_filename)
       IN /\ results' = Append(results, result)
          /\ \E written \in BOOLEAN :
               IF written
               THEN /\ files' = append_result_to_csv(files, result, practice_output_filename,
                                                     test_output_filename, participant_info,
                                                     variant)
                    /\ log' = Append(log, [ev |-> "append", t |-> now,
                                           file |-> output_filename,
                                           line |-> Len(files'[output_filename])])
                    /\ IF phase = "practice"
                       THEN /\ pc' = "feedback"
                            /\ UNCHANGED i
                       ELSE /\ pc' = "loop"
                            /\ i' = IF response = S_NA THEN i ELSE i + 1
               ELSE /\ pc' = "raised"                 \* OSError
                    /\ UNCHANGED <<files, log, i>>
    /\ UNCHANGED <<envVars, psdVars, now, keyBuffer, budget, ret, mainVars, test_type, phase,
                   start_time, start_time_str, trialVars, arrivals>>

\* results.append({...}); append_result_to_csv(results[-1], ...), whose open()
\* may fail: the exception is caught nowhere. A test trial ends here
record ==
    /\ pc = "record"
    /\ LET result == [trial |-> trial_number, type |-> test_type, phase |-> phase,
                      stimulus |-> current_file, response |-> response,
                      correct |-> scored.correct_answer, accuracy |-> scored.accuracy,
                      start_time |-> start_time_str, end_time |-> scored.end_time_str,
                      duration |-> scored.duration_str]
           output_filename == output_filename_of(result, practice_output_filename,
                                                 test_output_filename)
       IN /\ results' = Append(results, result)
          /\ \E written \in BOOLEAN :
               IF written
               THEN /\ files' = append_result_to_csv(files, result, practice_output_filename,
                                                     test_output_filename, participant_info,
                                                     variant)
                    /\ log' = Append(log, [ev |-> "append", t |-> now,
                                           file |-> output_filename,
                                           line |-> Len(files'[output_filename])])
                    /\ IF phase = "practice"
                       THEN /\ pc' = "feedback"
                            /\ UNCHANGED i
                       ELSE /\ pc' = "loop"
                            /\ i' = i + 1
               ELSE /\ pc' = "raised"                 \* OSError
                    /\ UNCHANGED <<files, log, i>>
    /\ UNCHANGED <<envVars, psdVars, now, keyBuffer, budget, ret, mainVars, test_type, phase,
                   start_time, start_time_str, trialVars, arrivals>>

\* display_feedback(win, response == correct_answer)
display_feedback ==
    /\ pc = "feedback"
    /\ log' = Append(log, [ev |-> "feedback",
                           text |-> feedback_text(response = scored.correct_answer)])
    /\ now' = now + TicksPerSec
    /\ pc' = "practice_instructions"
    /\ UNCHANGED <<envVars, psdVars, files, keyBuffer, budget, ret, mainVars, testVars, trialVars,
                   arrivals>>

\* display_instructions(win, instruction_texts[f'{test_type}_practice_{correct_answer}']);
\* a practice trial ends here
practice_instructions ==
    /\ pc = "practice_instructions"
    /\ ShowInstructions(practice_instruction_key(test_type, response, scored.correct_answer),
                        "loop", <<>>)
    /\ i' = i + 1
    /\ UNCHANGED <<envVars, psdVars, files, now, keyBuffer, budget, mainVars, test_type, phase,
                   results, start_time, start_time_str, trialVars, arrivals>>

\* ------------------------------------------------------------ specification

Next ==
    \/ check_paths
    \/ get_participant_info
    \/ show_questionnaire
    \/ create_musicality_file
    \/ load_catalogs
    \/ shuffle
    \/ create_output_file
    \/ main_loop
    \/ main_next
    \/ end_instructions
    \/ close
    \/ WaitKeys
    \/ musical_ear_test
    \/ practice_loop
    \/ test_loop
    \/ play
    \/ wait_stimulus
    \/ clearEvents
    \/ while_flip
    \/ getKeys
    \/ translate
    \/ KeyPress
    \/ score
    \/ record
    \/ display_feedback
    \/ practice_instructions

Spec == Init /\ [][Next]_vars

\* ------------------------------------------------------------- the ledger

Ledgers == {practice_output_filename, test_output_filename}

\* the trial rows of a result file: its lines after the header
Rows(f) == IF f \in DOMAIN files THEN Tail(files[f]) ELSE <<>>

\* every outcome there is: the rows of both files and the entries of results
Outcomes ==
    UNION {{Rows(f)[n] : n \in 1..Len(Rows(f))} : f \in Ledgers}
      \cup {results[n] : n \in 1..Len(results)}

\* --------------------------------------------------------------- properties

\* C1: in every outcome (either phase, either test type) the accuracy code is
\* 0, 1 or 99, and it is 99 exactly when the response is 'NA'.
C1_AccuracyCode ==
    \A r \in Outcomes :
        /\ r.accuracy \in {0, 1, 99}
        /\ r.accuracy = 99 <=> r.response = S_NA

\* C1: the test file holds a row of each accuracy code
C1_Witness ==
    \A code \in {0, 1, 99} :
        \E n \in 1..Len(Rows(test_output_filename)) :
            Rows(test_output_filename)[n].accuracy = code

\* C2: the accuracy code is 1 exactly when the response equals the ground
\* truth, and 0 exactly when the response is yes or no and differs from it.
C2_ScoreByEquality ==
    \A r \in Outcomes :
        /\ r.accuracy = 1 <=> r.response = r.correct
        /\ r.accuracy = 0 <=> (r.response \in {S_yes, S_no} /\ r.response # r.correct)

\* C2: every pair (response, ground truth) is in the ledger, the pair
\* (no response, different) from a test trial
C2_Witness ==
    /\ \A resp \in {S_yes, S_no, S_NA}, truth \in {S_yes, S_no} :
          \E r \in Outcomes : r.response = resp /\ r.correct = truth
    /\ \E n \in 1..Len(Rows(test_output_filename)) :
          LET r == Rows(test_output_filename)[n]
          IN r.stimulus = PathJoin(S_audio, F_melody_test1) /\ r.response = S_NA

\* C3: a practice trial returns only after a 'y' or 'n' key was pressed in its
\* response loop, so a practice response is yes or no, and every practice row
\* has response yes or no and accuracy 0 or 1.
C3_PracticeNeverNA ==
    /\ (phase = "practice" /\ pc \in {"translate", "score", "record"}) =>
          \E n \in 1..Len(arrivals) : arrivals[n].open /\ arrivals[n].key \in keyList
    /\ (phase = "practice" /\ pc \in {"score", "record", "feedback"}) =>
          response \in {S_yes, S_no}
    /\ \A r \in Outcomes :
          r.phase = "practice" => r.response \in {S_yes, S_no} /\ r.accuracy \in {0, 1}

\* C3: a practice trial is answered after the participant let a poll pass or
\* pressed a key that does not count
C3_Witness ==
    /\ phase = "practice" /\ pc = "record"
    /\ budget < MaxStray
    /\ \E n \in 1..Len(log) : log[n].ev = "play"
    /\ ~\E n \in 1..Len(log) : log[n].ev = "append"

\* C4: a test trial returns 'NA' exactly when no 'y' or 'n' key arrived while
\* its countdown was positive: a key that arrives in the window is returned,
\* a key that arrives once the countdown has reached zero is not.
C4_WindowByCountdown ==
    (phase = "test" /\ pc = "score") =>
        (response = S_NA <=>
            ~\E n \in 1..Len(arrivals) :
                arrivals[n].key \in keyList /\ arrivals[n].positive)

\* the indices of the log's events of one kind
Events(kind) == {n \in 1..Len(log) : log[n].ev = kind}

\* the last event of one kind before index n of the log (0: there is none)
LastBefore(kind, n) ==
    LET before == {m \in Events(kind) : m < n}
    IN IF before = {} THEN 0 ELSE CHOOSE m \in before : \A k \in before : k <= m

\* the row an "append" event of the log wrote
RowOf(n) == files[log[n].file][log[n].line]

\* the last event of the log is of this kind
LastEventIs(kind) == Len(log) > 0 /\ log[Len(log)].ev = kind

\* the append of a trial's row has failed and the exception has ended the run
WriteFailed == pc = "raised" /\ LastEventIs("response")

\* the trials whose response has been returned and whose row is due
Completed ==
    Cardinality(Events("response"))
      - (IF pc \in {"score", "record"} \/ WriteFailed THEN 1 ELSE 0)

TotalRows == Len(Rows(practice_output_filename)) + Len(Rows(test_output_filename))

\* C5: the ledger is append-only. Once a result file has its header, no step
\* removes, reorders or rewrites a line of it; the step that completes a trial
\* adds one row to exactly one of the two files, no other step changes them,
\* and the rows number the completed trials.
C5_AppendOnly ==
    [][ /\ \A f \in Ledgers \cap DOMAIN files :
              /\ f \in DOMAIN files'
              /\ Len(files'[f]) >= Len(files[f])
              /\ SubSeq(files'[f], 1, Len(files[f])) = files[f]
        /\ (pc = "record" /\ pc' # "raised") =>
              \E f \in Ledgers :
                  /\ Len(files'[f]) = Len(files[f]) + 1
                  /\ \A g \in Ledgers \ {f} : files'[g] = files[g]
        /\ ((pc # "record" \/ pc' = "raised") /\ Ledgers \subseteq DOMAIN files) =>
              \A f \in Ledgers : files'[f] = files[f]
        /\ TotalRows' = Completed' ]_vars

\* C5: the session has ended with several rows in each file
C5_Witness ==
    /\ pc = "done"
    /\ Len(Rows(practice_output_filename)) >= 2
    /\ Len(Rows(test_output_filename)) >= 2

\* the rows of a test type in the test file, in file order
TestRowsOf(type) == SelectSeq(Rows(test_output_filename), LAMBDA r : r.type = type)

\* C6: the test rows of one sub-test carry the ordinals 1, 2, ... in this
\* order, and the row with ordinal k records the k-th item of the test catalog.
C6_TestRowsInCatalogOrder ==
    \A type \in {S_melody, S_rhythm} :
        LET rows == TestRowsOf(type)
        IN \A k \in 1..Len(rows) :
              /\ rows[k].trial = k
              /\ k <= Len(catalog[type].test_files)
              /\ rows[k].stimulus = catalog[type].test_files[k]

\* C6: a sub-test has written a row for each of two test items
C6_Witness ==
    /\ pc = "returned"
    /\ Len(catalog[test_type].test_files) = 2
    /\ Len(TestRowsOf(test_type)) = 2

\* an identifier carries the identical marker: "ident" begins its last
\* underscore-separated token
IdentMarked(id) ==
    \E p \in 1..Len(id) :
        /\ p + 4 <= Len(id)
        /\ \A j \in 0..4 : id[p + j] = S_ident[j + 1]
        /\ p = 1 \/ id[p - 1] = "_"
        /\ \A j \in p..Len(id) : id[j] # "_"

\* C7: the ground truth of an item is yes exactly when its identifier carries
\* the identical marker, whatever the phase, the position and the history.
C7_GroundTruthByMarker ==
    /\ \A r \in Outcomes :
          /\ r.correct \in {S_yes, S_no}
          /\ r.correct = S_yes <=> IdentMarked(r.stimulus)
    /\ pc = "record" =>
          (scored.correct_answer = S_yes <=> IdentMarked(current_file))

\* C7: both files hold rows of both ground truths
C7_Witness ==
    \A f \in Ledgers, truth \in {S_yes, S_no} :
        \E n \in 1..Len(Rows(f)) : Rows(f)[n].correct = truth

\* the instructions that explain the correct answer of a practice item
DebriefText(type, truth) ==
    IF type = S_melody
    THEN (IF truth = S_yes THEN "In diesem Fall waren die Melodien identisch"
          ELSE "In diesem Fall waren die Melodien nicht identisch")
    ELSE (IF truth = S_yes THEN "In diesem Fall waren die Rhythmen identisch"
          ELSE "In diesem Fall waren die Rhythmen nicht identisch")

\* C8: after a practice trial the feedback is "Richtig!" exactly when the
\* response equals the ground truth, and the instructions shown next are those
\* of (test type, ground truth of the item), whatever the response was.
C8_DebriefByGroundTruth ==
    \A n \in Events("feedback") :
        LET a == LastBefore("append", n)
        IN /\ a # 0
           /\ RowOf(a).phase = "practice"
           /\ log[n].text = "Richtig!" <=> RowOf(a).response = RowOf(a).correct
           /\ log[n].text \in {"Richtig!", "Falsch!"}
           /\ RowOf(a).correct = S_yes <=> IdentMarked(RowOf(a).stimulus)
           /\ n < Len(log) =>
                 /\ log[n + 1].ev = "instructions"
                 /\ log[n + 1].text = DebriefText(RowOf(a).type, RowOf(a).correct)

\* C8: a practice item was answered wrongly, "Falsch!" was shown and then the
\* instructions
C8_Witness ==
    \E n \in Events("feedback") :
        /\ log[n].text = "Falsch!"
        /\ n < Len(log)
        /\ RowOf(LastBefore("append", n)).response = S_yes

\* whole seconds in the form HH:MM:SS
HMS(secs) ==
    Pad2(secs \div 3600) \o S_colon \o Pad2((secs \div 60) % 60) \o S_colon \o Pad2(secs % 60)

\* the call of musical_ear_test that produced the row of "append" event n
CallOf(n) == LastBefore("musical_ear_test", n)

\* the ticks between the start of the producing sub-test and "append" event n
ElapsedTicks(n) == log[n].t - log[CallOf(n)].t

\* C9: the elapsed value of every row is the row's end instant minus the start
\* instant of the sub-test that produced it, so the second sub-test's elapsed
\* values restart from its own start.
C9_ElapsedFromOwnStart ==
    \A n \in Events("append") :
        /\ CallOf(n) # 0
        /\ RowOf(n).type = log[CallOf(n)].type
        /\ RowOf(n).duration = HMS(ElapsedTicks(n) \div TicksPerSec)
        /\ RowOf(n).start_time = HMS((log[CallOf(n)].t \div TicksPerSec) % 86400)
        /\ RowOf(n).end_time = HMS((log[n].t \div TicksPerSec) % 86400)

\* C9: a row of the second sub-test has a smaller elapsed value than an earlier
\* row of the first sub-test
C9_Witness ==
    \E n1, n2 \in Events("append") :
        /\ n1 < n2
        /\ CallOf(n1) < CallOf(n2)
        /\ ElapsedTicks(n2) \div TicksPerSec < ElapsedTicks(n1) \div TicksPerSec
        /\ RowOf(n2).duration # RowOf(n1).duration

\* the phase the rows of a result file have
PhaseOf(f) == IF f = practice_output_filename THEN "practice" ELSE "test"

\* C10: every row lies in the file of its phase: the practice file holds only
\* practice rows and the test file only test rows, and the step that appends a
\* trial's row adds one line to the file of the trial's phase and leaves the
\* other file as it was.
C10_RoutedByPhase ==
    [][ /\ \A f \in Ledgers \cap DOMAIN files' :
              \A n \in 2..Len(files'[f]) : files'[f][n].phase = PhaseOf(f)
        /\ (pc = "record" /\ pc' # "raised") =>
              \A f \in Ledgers :
                  IF PhaseOf(f) = phase
                  THEN /\ Len(files'[f]) = Len(files[f]) + 1
                       /\ files'[f][Len(files'[f])].phase = phase
                       /\ files'[f][Len(files'[f])].type = test_type
                  ELSE files'[f] = files[f] ]_vars

\* C10: in the variant with the questionnaire both files hold rows of both
\* sub-tests
C10_Witness ==
    /\ variant = "psd"
    /\ \A f \in Ledgers, type \in {S_melody, S_rhythm} :
          \E n \in 1..Len(Rows(f)) : Rows(f)[n].type = type /\ Rows(f)[n].phase = PhaseOf(f)

\* the program is inside a call of musical_ear_test
InSubtest ==
    \/ pc \in {"loop", "play", "wait", "clearEvents", "while", "getKeys", "translate",
               "score", "record", "feedback", "practice_instructions", "returned"}
    \/ pc = "waitKeys" /\ ret = "loop"

\* the event after the events of the call that starts at index c of the log
CallEnd(c) ==
    LET later == {m \in Events("musical_ear_test") : m > c}
    IN IF later # {} THEN (CHOOSE m \in later : \A k \in later : m <= k) - 1
       ELSE IF InSubtest THEN Len(log)
       ELSE CHOOSE m \in c..Len(log) :
               /\ \A k \in (c + 1)..m : ~(log[k].ev = "instructions" /\ log[k].text \in
                                           {"Ergebnis", "Sie haben es geschafft!"})
               /\ m = Len(log) \/ (log[m + 1].ev = "instructions" /\ log[m + 1].text \in
                                           {"Ergebnis", "Sie haben es geschafft!"})

\* the number of events of one complete run over E practice and T test items
RunLength(E, T) == 2 + 5 * E + 1 + 3 * T

\* the j-th event of a run of the sub-test type is as the order prescribes
EventInOrder(ev, j, type) ==
    LET E == Len(catalog[type].example_files)
        T == Len(catalog[type].test_files)
        practice_steps == <<"play", "response", "append", "feedback", "instructions">>
        test_steps == <<"play", "response", "append">>
    IN IF j = 1 THEN ev.ev = "musical_ear_test"
       ELSE IF j = 2
       THEN ev.ev = "instructions" /\ ev.text = instruction_texts[type \o S_part1]
       ELSE IF j <= 2 + 5 * E
       THEN LET k == ((j - 3) \div 5) + 1
                step == practice_steps[((j - 3) % 5) + 1]
            IN /\ ev.ev = step
               /\ step = "play" => ev.stimulus = catalog[type].example_files[k]
               /\ step = "append" =>
                     /\ ev.file = practice_output_filename
                     /\ files[ev.file][ev.line].phase = "practice"
                     /\ files[ev.file][ev.line].trial = k
                     /\ files[ev.file][ev.line].stimulus = catalog[type].example_files[k]
       ELSE IF j = 3 + 5 * E
       THEN ev.ev = "instructions" /\ ev.text = instruction_texts[type \o S_part2]
       ELSE LET k == ((j - 4 - 5 * E) \div 3) + 1
                step == test_steps[((j - 4 - 5 * E) % 3) + 1]
            IN /\ j <= RunLength(E, T)
               /\ ev.ev = step
               /\ step = "play" => ev.stimulus = catalog[type].test_files[k]
               /\ step = "append" =>
                     /\ ev.file = test_output_filename
                     /\ files[ev.file][ev.line].phase = "test"
                     /\ files[ev.file][ev.line].trial = k
                     /\ files[ev.file][ev.line].stimulus = catalog[type].test_files[k]

\* C11: the events of one sub-test run come in this order: the part-1
\* instructions; for each practice item in turn play, response, (scoring,) row,
\* feedback, debrief; the part-2 instructions; for each test item in turn play,
\* response, (scoring,) row; then the return. A run that has returned has all
\* of them (a run ended by a failed append has a prefix), and scoring and
\* recording lie between the response and the feedback.
C11_SubtestEventOrder ==
    /\ \A c \in Events("musical_ear_test") :
          LET type == log[c].type
              full == RunLength(Len(catalog[type].example_files),
                                Len(catalog[type].test_files))
              last == CallEnd(c)
          IN /\ \A j \in 1..(last - c + 1) : EventInOrder(log[c + j - 1], j, type)
             /\ (last < Len(log) \/ (~InSubtest /\ ~WriteFailed) \/ pc = "returned") =>
                   last - c + 1 = full
    /\ pc \in {"score", "record"} => LastEventIs("response")
    /\ pc = "feedback" => LastEventIs("append")
    /\ pc = "practice_instructions" => LastEventIs("feedback")
    /\ pc = "returned" => LastEventIs("append") \/ LastEventIs("instructions")

\* C11: the first sub-test has returned after two practice and two test items
C11_Witness ==
    /\ pc = "returned"
    /\ mainIdx = 0
    /\ Len(catalog[test_type].example_files) = 2
    /\ Len(catalog[test_type].test_files) = 2
    /\ Cardinality(Events("append")) = 4

\* the number of items of the loop a row belongs to
ItemsOf(row) ==
    IF row.phase = "practice" THEN Len(catalog[row.type].example_files)
    ELSE Len(catalog[row.type].test_files)

\* C12: every practice row is followed by the feedback, whatever the response
\* was; a test row is never followed by feedback, and between two test trials
\* of a sub-test nothing is shown but the next stimulus.
C12_FeedbackOnlyInPractice ==
    /\ \A a \in Events("append") :
          IF RowOf(a).phase = "practice"
          THEN IF a = Len(log) THEN pc = "feedback" ELSE log[a + 1].ev = "feedback"
          ELSE /\ a < Len(log) => log[a + 1].ev \notin {"feedback", "response", "append"}
               /\ (a < Len(log) /\ RowOf(a).trial < ItemsOf(RowOf(a))) =>
                     log[a + 1].ev = "play"
               /\ (a = Len(log) /\ RowOf(a).trial < ItemsOf(RowOf(a))) =>
                     pc \in {"loop", "play"}
    /\ \A n \in Events("feedback") :
          /\ n > 1
          /\ log[n - 1].ev = "append"
          /\ RowOf(n - 1).phase = "practice"
    /\ pc \in {"feedback", "practice_instructions"} => phase = "practice"

\* C12: feedback was shown after a right and after a wrong practice answer, and
\* a test row was followed at once by the next stimulus
C12_Witness ==
    /\ \E n1, n2 \in Events("feedback") :
          log[n1].text = "Richtig!" /\ log[n2].text = "Falsch!"
    /\ \E a \in Events("append") :
          /\ RowOf(a).phase = "test"
          /\ a < Len(log)
          /\ log[a + 1].ev = "play"

\* the two orders of the sub-tests
Orders == {<<S_melody, S_rhythm>>, <<S_rhythm, S_melody>>}

\* the test types of the calls of musical_ear_test so far, in call order
CalledTypes ==
    LET calls == Events("musical_ear_test")
        nth[k \in 1..Cardinality(calls)] ==
            CHOOSE c \in calls : Cardinality({m \in calls : m < c}) = k - 1
    IN [k \in 1..Cardinality(calls) |-> log[nth[k]].type]

\* C13: the order of the two sub-tests is drawn once, either order can be
\* drawn, the sub-tests run in this order, each exactly once in a session that
\* completes, and the rows of both go to the same two result files.
C13_EachSubtestOnce ==
    /\ pc = "shuffle" =>
          \A order \in Orders : ENABLED (shuffle /\ starting_tests' = order)
    /\ starting_tests # <<>> => starting_tests \in Orders
    /\ Len(CalledTypes) <= Len(starting_tests)
    /\ \A k \in 1..Len(CalledTypes) : CalledTypes[k] = starting_tests[k]
    /\ Len(CalledTypes) = (IF InSubtest \/ WriteFailed THEN mainIdx + 1 ELSE mainIdx)
    /\ pc \in {"end_instructions", "close", "done"} => CalledTypes = starting_tests
    /\ \A a \in Events("append") :
          /\ log[a].file \in Ledgers
          /\ RowOf(a).type \in {CalledTypes[k] : k \in 1..Len(CalledTypes)}
    /\ DOMAIN files \subseteq Ledgers \cup {musicality_psd_filename}

\* C13: a session has completed with the rhythm sub-test first, and each result
\* file holds rows of both sub-tests
C13_Witness ==
    /\ pc = "done"
    /\ starting_tests = <<S_rhythm, S_melody>>
    /\ \A f \in Ledgers, type \in {S_melody, S_rhythm} :
          \E n \in 1..Len(Rows(f)) : Rows(f)[n].type = type

\* the events that show the general instructions of the session
GeneralIntros ==
    {n \in Events("instructions") : log[n].text = instruction_texts[S_general_intro]}

\* C14: the general instructions are shown once in a session, before the first
\* sub-test whichever it is, and not again before the second sub-test.
C14_GeneralIntroOnce ==
    /\ Cardinality(GeneralIntros) <= 1
    /\ \A n \in GeneralIntros : \A e \in 1..Len(log) : n <= e
    /\ Events("musical_ear_test") # {} => Cardinality(GeneralIntros) = 1
    /\ pc = "musical_ear_test" => Cardinality(GeneralIntros) = 1
    /\ pc = "done" => Cardinality(GeneralIntros) = 1

\* C14: the second sub-test, melody after rhythm, has started in the variant
\* with the questionnaire
C14_Witness ==
    /\ variant = "psd"
    /\ CalledTypes = <<S_rhythm, S_melody>>
    /\ Cardinality(Events("play")) > Len(catalog[S_rhythm].example_files)
                                       + Len(catalog[S_rhythm].test_files)

\* a line is a header line, not a trial row
IsHeader(line) == DOMAIN line = {"header"}

\* a trial has started: a stimulus was played or the first sub-test was entered
TrialStarted ==
    \/ Events("play") # {}
    \/ Events("musical_ear_test") # {}
    \/ pc \in {"main_loop", "musical_ear_test"}

\* C15: once a trial has started, and whenever a trial row exists, each of the
\* two result files exists, its first line is the header, and no other line of
\* it is a header.
C15_HeaderBeforeTrials ==
    (TrialStarted \/ \E f \in Ledgers : Len(Rows(f)) > 0) =>
        \A f \in Ledgers :
            /\ f \in DOMAIN files
            /\ Len(files[f]) >= 1
            /\ files[f][1] = header_line(variant)
            /\ IsHeader(files[f][1])
            /\ \A n \in 2..Len(files[f]) : ~IsHeader(files[f][n])

\* C15: a stimulus plays while both files hold trial rows after their header
C15_Witness ==
    /\ pc = "wait"
    /\ \A f \in Ledgers : Len(Rows(f)) > 0 /\ files[f][1] = header_line(variant)

\* the two keys that answer a trial, and what they mean
AnswerKeys == {"y", "n"}

AnswerOf(key) == IF key = "y" THEN S_yes ELSE S_no

\* the keys of the buffer that answer a trial, oldest first
BufferedAnswers == SelectSeq(keyBuffer, LAMBDA k : k \in AnswerKeys)

\* the presses of an answer key since the response loop of the trial began
OpenAnswers == SelectSeq(arrivals, LAMBDA a : a.open /\ a.key \in AnswerKeys)

EarlyAnswers == SelectSeq(arrivals, LAMBDA a : ~a.open /\ a.key \in AnswerKeys)

MissedRows == {a \in Events("append") : RowOf(a).response = S_NA}

\* the test rows of a type that count as correct
CorrectTestRows(type) ==
    {n \in 1..Len(TestRowsOf(type)) :
        TestRowsOf(type)[n].response = TestRowsOf(type)[n].correct}

\* C18: a test trial whose window ends without a key is no error: its row is
\* written with response 'NA' and accuracy 99, it does not count as correct
\* whatever the ground truth, and the sub-test goes on with the next test item
\* or returns after the last one.
C18_MissedTrialRecorded ==
    /\ \A n \in Events("response") :
          log[n].response = S_NA =>
             /\ IF n = Len(log) THEN pc \in {"score", "record", "raised"} /\ phase = "test"
                ELSE log[n + 1].ev = "append" /\ n + 1 \in MissedRows
    /\ \A a \in MissedRows :
          /\ RowOf(a).phase = "test"
          /\ RowOf(a).accuracy = 99
          /\ log[a].file = test_output_filename
          /\ a \notin {b \in Events("append") : RowOf(b).accuracy = 1}
          /\ IF RowOf(a).trial < ItemsOf(RowOf(a))
             THEN IF a = Len(log) THEN pc \in {"loop", "play"} /\ i = RowOf(a).trial
                  ELSE /\ log[a + 1].ev = "play"
                       /\ log[a + 1].stimulus =
                             catalog[RowOf(a).type].test_files[RowOf(a).trial + 1]
             ELSE IF a = Len(log)
                  THEN pc \in {"loop", "returned", "main_loop", "musical_ear_test",
                               "end_instructions"}
                  ELSE log[a + 1].ev \in {"musical_ear_test", "instructions"}
    /\ (variant = "psd" /\ pc \in {"end_instructions", "close", "done"}) =>
          \A type \in {S_melody, S_rhythm} :
              correct_responses[type] = Cardinality(CorrectTestRows(type))

\* C18: the session is over; an identical item went unanswered, and an
\* unanswered item was followed by the next item of its sub-test
C18_Witness ==
    /\ pc = "done"
    /\ \E a \in MissedRows : RowOf(a).correct = S_yes /\ RowOf(a).accuracy = 99
    /\ \E a \in MissedRows : a < Len(log) /\ log[a + 1].ev = "play"

\* C19: when the append of a trial's row fails the exception is not caught:
\* the step that fails writes nothing, shows nothing and ends the run, so no
\* stimulus, feedback or row follows, and the rows written before stay as
\* they are.
C19_WriteFailureEndsSession ==
    [][ /\ pc # "raised"
        /\ (pc = "record" /\ files' = files) =>
              /\ pc' = "raised"
              /\ log' = log
              /\ LastEventIs("response")
        /\ pc' = "raised" =>
              /\ files' = files
              /\ log' = log
              /\ TotalRows' = Completed' ]_vars

\* C19: the append of the second practice trial's row has failed after the
\* first trial's row was written and its feedback shown
C19_Witness ==
    /\ WriteFailed
    /\ phase = "practice"
    /\ Len(results) = 2
    /\ Len(Rows(practice_output_filename)) = 1
    /\ Cardinality(Events("feedback")) = 1
    /\ Cardinality(Events("play")) = 2

\* the program shows a dialog
AtDialog == pc \in {"get_participant_info", "show_questionnaire"}

\* C20: a dialog that is cancelled (it yields no participant data, or no
\* answer to the question asked) ends the session at once: the run stops there,
\* before any instruction was shown, any stimulus played or any file written,
\* and no step follows.
C20_CancelEndsSession ==
    [][ /\ pc # "quit"
        /\ (pc = "get_participant_info" /\ participant_info' = participant_info) =>
              pc' = "quit"
        /\ (pc = "show_questionnaire" /\ q < Len(questions)
              /\ questionnaire_data' = questionnaire_data) =>
              pc' = "quit"
        /\ pc' = "quit" =>
              /\ AtDialog
              /\ log' = <<>>
              /\ DOMAIN files' = {}
              /\ results' = <<>>
        /\ AtDialog => (log = <<>> /\ DOMAIN files = {}) ]_vars

\* C20: the third dialog of the questionnaire was cancelled
C20_Witness ==
    /\ pc = "quit"
    /\ variant = "psd"
    /\ q = 2
    /\ participant_info # <<>>
    /\ log = <<>>
    /\ DOMAIN files = {}

\* the folder of the stimuli, the one directory the program requires
AudioFolderMissing == base_audio_path(variant) \notin dirs

Nth(S, k) == CHOOSE n \in S : Cardinality({m \in S : m < n}) = k - 1

\* the rows on disk in the order they were written, over both files
WrittenRows ==
    [k \in 1..Cardinality(Events("append")) |-> RowOf(Nth(Events("append"), k))]

\* C22: whenever the process might be stopped, the two files together hold
\* the rows of the trials executed so far, in the order of execution, lacking
\* at most the one trial whose response has been returned and whose append
\* has not: each response is followed at once by its row, and results holds
\* no row that is not on disk.
C22_DurablePerTrial ==
    /\ TotalRows = Len(WrittenRows)
    /\ Len(WrittenRows) \in
          {Cardinality(Events("response")), Cardinality(Events("response")) - 1}
    /\ Len(WrittenRows) < Cardinality(Events("response")) =>
          LastEventIs("response") /\ pc \in {"score", "record", "raised"}
    /\ \A n \in Events("response") : n < Len(log) => log[n + 1].ev = "append"
    /\ \A k \in 1..Len(WrittenRows) :
          /\ WrittenRows[k].response = log[Nth(Events("response"), k)].response
          /\ WrittenRows[k].stimulus = log[Nth(Events("play"), k)].stimulus
    /\ \A a, b \in Events("append") :
          (a < b /\ log[a].file = log[b].file) => log[a].line < log[b].line
    /\ \A f \in Ledgers \cap DOMAIN files :
          \A n \in 2..Len(files[f]) :
              \E a \in Events("append") : log[a].file = f /\ log[a].line = n
    /\ \A k \in 1..Len(results) :
          \/ \E a \in Events("append") :
                /\ a > CallOf(a)
                /\ CallOf(a) = LastBefore("musical_ear_test", Len(log) + 1)
                /\ RowOf(a) = csv_line(results[k], participant_info, variant)
          \/ k = Len(results) /\ WriteFailed

\* C22: a test trial is under way with rows of earlier trials in both files
C22_Witness ==
    /\ pc = "getKeys"
    /\ phase = "test"
    /\ LastEventIs("play")
    /\ Len(Rows(practice_output_filename)) >= 2
    /\ Len(Rows(test_output_filename)) >= 1
    /\ Len(results) = 3

\* the feedback events with the row each followed
FeedbackRows == {<<log[n].text, RowOf(LastBefore("append", n))>> : n \in Events("feedback")}

\* C23: the score depends on the response and the ground truth alone: any two
\* outcomes of the session with the same response and the same ground truth
\* have the same accuracy code, whatever their trial, phase and sub-test, and
\* any two practice trials with the same pair got the same feedback.
C23_ScoringDeterministic ==
    /\ \A r1, r2 \in Outcomes :
          (r1.response = r2.response /\ r1.correct = r2.correct) =>
              r1.accuracy = r2.accuracy
    /\ \A f1, f2 \in FeedbackRows :
          (f1[2].response = f2[2].response /\ f1[2].correct = f2[2].correct) =>
              f1[1] = f2[1]

\* C23: the same pair was scored in a practice trial of one sub-test and in a
\* test trial of the other, and a pair without response in two test trials
C23_Witness ==
    /\ \E r1, r2 \in Outcomes :
          /\ r1.response = r2.response /\ r1.correct = r2.correct
          /\ r1.phase # r2.phase
          /\ r1.type # r2.type
    /\ \E r1, r2 \in Outcomes :
          /\ r1.response = S_NA /\ r2.response = S_NA
          /\ r1.correct = r2.correct
          /\ r1.trial # r2.trial

\* ------------------------------------------------ sessions over any listing

\* further files of the audio folder: a third melody test item, and a second
\* file with the ordinal 2
F_melody_test3 == <<"m","e","l","o","d","y","_","t","e","s","t","3","_","d","i","f","f","e","r","e","n","t",".","w","a","v">>
F_melody_test2b == <<"m","e","l","o","d","y","_","t","e","s","t","2","_","d","i","f","f","e","r","e","n","t",".","w","a","v">>

\* the melody test files a listing is drawn from
TestFilePool == {F_melody_test1, F_melody_test2, F_melody_test3, F_melody_test2b}

\* the longest run of test files in a listing
MaxListed == 3

\* the sequences of n different members of S
Arrangements(S, n) ==
    {l \in [1..n -> S] : \A a, b \in 1..n : a # b => l[a] # l[b]}

\* os.listdir returns the files in any order: an example file, then two to
\* MaxListed test files in each order
Listings ==
    {<<F_melody_example1>> \o l :
        l \in UNION {Arrangements(TestFilePool, n) : n \in 2..MaxListed}}

\* musical_ear.py started in a folder with one of the listings
InitCatalog ==
    /\ variant = "met"
    /\ names \in Listings
    /\ budget = 0
    /\ dirs = {base_audio_path(variant)}
    /\ files = <<>>
    /\ now = 0
    /\ keyBuffer = <<>>
    /\ pc = "check_paths"
    /\ ret = ""
    /\ participant_info = <<>>
    /\ catalog = <<>>
    /\ starting_tests = <<>>
    /\ mainIdx = 0
    /\ test_type = <<>>
    /\ phase = ""
    /\ i = 0
    /\ results = <<>>
    /\ start_time = 0
    /\ start_time_str = <<>>
    /\ timer = 0
    /\ response = None
    /\ scored = <<>>
    /\ questionnaire_data = <<>>
    /\ q = 0
    /\ correct_responses = (S_melody :> 0) @@ (S_rhythm :> 0)
    /\ number_trials = (S_melody :> 0) @@ (S_rhythm :> 0)
    /\ arrivals = <<>>
    /\ log = <<>>

\* the steps of musical_ear.py
NextCatalog ==
    \/ check_paths
    \/ get_participant_info
    \/ load_catalogs
    \/ shuffle
    \/ create_output_file
    \/ main_loop
    \/ main_next
    \/ end_instructions
    \/ close
    \/ WaitKeys
    \/ musical_ear_test
    \/ practice_loop
    \/ test_loop
    \/ play
    \/ wait_stimulus
    \/ clearEvents
    \/ while_flip
    \/ getKeys
    \/ translate
    \/ KeyPress
    \/ score
    \/ record
    \/ display_feedback
    \/ practice_instructions

SpecCatalog == InitCatalog /\ [][NextCatalog]_vars

\* the ordinal a test file carries: the number after "_test"
OrdinalOf(file) == ToInt(FindAllDigits(Split(file, S_test)[2])[1])

\* the test files of a type in the listing, in listing order
ListedTests(type) ==
    SelectSeq(names, LAMBDA f : StartsWith(f, type) /\ ~Contains(f, S_example)
                                  /\ Contains(f, S_test))

\* the test files of a type carry the ordinals 1..N, each once
WellNumbered(type) ==
    LET listed == ListedTests(type)
    IN \A k \in 1..Len(listed) :
          Cardinality({n \in 1..Len(listed) : OrdinalOf(listed[n]) = k}) = 1

\* C24: when the test files of a type carry the ordinals 1..N, whatever the
\* order of the listing, the test list holds the file of ordinal k at position
\* k, and every test row carries as trial number the ordinal of its stimulus.
C24_TestListByOrdinal ==
    \A type \in {S_melody, S_rhythm} :
        (catalog # <<>> /\ WellNumbered(type)) =>
            /\ Len(catalog[type].test_files) = Len(ListedTests(type))
            /\ \A k \in 1..Len(catalog[type].test_files) :
                  OrdinalOf(catalog[type].test_files[k]) = k
            /\ \A k \in 1..Len(TestRowsOf(type)) :
                  TestRowsOf(type)[k].trial = OrdinalOf(TestRowsOf(type)[k].stimulus)

\* C25: when the test files of a type have a duplicate or a missing ordinal,
\* the catalog either is not built (the load fails) or holds the test files in
\* non-decreasing order of their ordinals.
C25_MalformedOrdinalsOrdered ==
    \A type \in {S_melody, S_rhythm} :
        (catalog # <<>> /\ ~WellNumbered(type)) =>
            \A a, b \in 1..Len(catalog[type].test_files) :
                a < b => OrdinalOf(catalog[type].test_files[a])
                            <= OrdinalOf(catalog[type].test_files[b])

\* ------------------------------------- the scoring statements on any input

\* the largest number of hours of a duration
MaxHours == 100

\* the responses play_stimulus_and_display_prompt returns
Responses == {S_yes, S_no, S_NA}

\* the ground truths the scoring statement is applied to: the two the code
\* computes and, as the degenerate one, the value of no response
GroundTruths == {S_yes, S_no, S_NA}

\* durations in whole seconds, around the turns of minute, hour and day
DurationSeconds ==
    {3600 * h + 60 * m + sec : h \in {0, 1, 23, 24, 25, MaxHours},
                               m \in {0, 1, 59}, sec \in {0, 1, 59}}

\* the scoring statements of a trial, before they run: a response, a ground
\* truth, a start instant and an end instant
InitScoring ==
    /\ variant \in {"met", "psd"}
    /\ names = <<>>
    /\ budget = 0
    /\ dirs = {}
    /\ files = <<>>
    /\ \E d \in DurationSeconds, part \in 0..(TicksPerSec - 1), start \in {0, TicksPerSec + 1} :
         /\ start_time = start
         /\ now = start + d * TicksPerSec + part
    /\ keyBuffer = <<>>
    /\ pc = "accuracy"
    /\ ret = ""
    /\ participant_info = <<>>
    /\ catalog = <<>>
    /\ starting_tests = <<>>
    /\ mainIdx = 0
    /\ test_type = <<>>
    /\ phase \in {"practice", "test"}
    /\ i = 0
    /\ results = <<>>
    /\ start_time_str = strftime_HMS(start_time)
    /\ timer = 0
    /\ response \in IF phase = "practice" THEN Responses \ {S_NA} ELSE Responses
    /\ scored \in {[correct_answer |-> truth] : truth \in GroundTruths}
    /\ questionnaire_data = <<>>
    /\ q = 0
    /\ correct_responses = (S_melody :> 0) @@ (S_rhythm :> 0)
    /\ number_trials = (S_melody :> 0) @@ (S_rhythm :> 0)
    /\ arrivals = <<>>
    /\ log = <<>>

\* accuracy = 1 if response == correct_answer else (99 if response == "NA" else 0)
score_accuracy ==
    /\ pc = "accuracy"
    /\ scored' = [correct_answer |-> scored.correct_answer,
                  accuracy |-> accuracy_of(response, scored.correct_answer)]
    /\ pc' = "duration"
    /\ UNCHANGED <<envVars, psdVars, files, now, keyBuffer, budget, ret, mainVars, testVars, timer,
                   response, arrivals, log>>

\* end_time, end_time_str, duration, hours, minutes, seconds, duration_str
score_duration ==
    /\ pc = "duration"
    /\ scored' = [correct_answer |-> scored.correct_answer,
                  accuracy |-> scored.accuracy,
                  end_time_str |-> strftime_HMS(now),
                  duration_str |-> duration_str_of(duration_of(now, start_time))]
    /\ pc' = "scored"
    /\ UNCHANGED <<envVars, psdVars, files, now, keyBuffer, budget, ret, mainVars, testVars, timer,
                   response, arrivals, log>>

NextScoring ==
    \/ score_accuracy
    \/ score_duration

SpecScoring == InitScoring /\ [][NextScoring]_vars

FieldsOf(text) == [n \in 1..Len(Split(text, S_colon)) |-> ToInt(Split(text, S_colon)[n])]

\* the whole seconds between the start and the end instant
WholeSeconds == (now - start_time) \div TicksPerSec

\* C28: a duration of d whole seconds (the fraction dropped) is written as
\* hours d div 3600, minutes (d mod 3600) div 60 and seconds d mod 60, each
\* with two digits at least; minutes and seconds lie in 0..59, the three add
\* up to d, and the hours go on beyond 24.
C28_ElapsedFormat ==
    pc = "scored" =>
        LET d == WholeSeconds
            text == scored.duration_str
            fields == FieldsOf(text)
        IN /\ Len(fields) = 3
           /\ \A n \in 1..Len(text) : text[n] = ":" \/ IsDigit(text[n])
           /\ fields[1] = d \div 3600
           /\ fields[2] = (d % 3600) \div 60
           /\ fields[3] = d % 60
           /\ fields[2] \in 0..59 /\ fields[3] \in 0..59
           /\ 3600 * fields[1] + 60 * fields[2] + fields[3] = d
           /\ Len(Split(text, S_colon)[1]) >= 2
           /\ Len(Split(text, S_colon)[2]) = 2
           /\ Len(Split(text, S_colon)[3]) = 2

\* C28: a duration of over a day, one second and a fraction short of the next
\* hour, has been formatted
C28_Witness ==
    /\ pc = "scored"
    /\ WholeSeconds >= 3600 * 25
    /\ WholeSeconds % 3600 = 3599
    /\ (now - start_time) % TicksPerSec # 0
    /\ FieldsOf(scored.duration_str)[1] >= 25

\* the seconds of the day a text of the form HH:MM:SS names
SecondsOf(text) == 3600 * FieldsOf(text)[1] + 60 * FieldsOf(text)[2] + FieldsOf(text)[3]

\* the instant the response window of the trial of "append" event a opened:
\* the stimulus and the settle time after its start
WindowOpened(a) == log[LastBefore("play", a)].t + (StimSeconds + 1) * TicksPerSec

\* the instant the response window of the trial of "append" event a closed
WindowClosed(a) == log[LastBefore("response", a)].t

\* C27 as claimed: the start time of a row is the instant the response window
\* of its trial opened, not before the trial's stimulus, its end time the
\* instant the window closed, and no two trials of a sub-test have the same
\* start time.
C27_RowTimesBoundWindow ==
    /\ \A a \in Events("append") :
          /\ SecondsOf(RowOf(a).start_time) = WindowOpened(a) \div TicksPerSec
          /\ SecondsOf(RowOf(a).start_time) >= log[LastBefore("play", a)].t \div TicksPerSec
          /\ SecondsOf(RowOf(a).end_time) = WindowClosed(a) \div TicksPerSec
    /\ \A a, b \in Events("append") :
          (a # b /\ CallOf(a) = CallOf(b)) => RowOf(a).start_time # RowOf(b).start_time

\* C27 as the code has it: the start time of a row is the instant its sub-test
\* began, the same in all rows of the sub-test and before the trial's stimulus;
\* the end time is the instant response collection returned, one second after
\* the trial's window closed, and not before the window opened.
C27_RowTimesOfSubtest ==
    /\ \A a \in Events("append") :
          /\ SecondsOf(RowOf(a).start_time) = log[CallOf(a)].t \div TicksPerSec
          /\ log[CallOf(a)].t <= log[LastBefore("play", a)].t
          /\ SecondsOf(RowOf(a).end_time) = (WindowClosed(a) + TicksPerSec) \div TicksPerSec
          /\ WindowClosed(a) >= WindowOpened(a)
          /\ log[a].t = WindowClosed(a) + TicksPerSec
    /\ \A a, b \in Events("append") :
          CallOf(a) = CallOf(b) => RowOf(a).start_time = RowOf(b).start_time

\* C27: a sub-test has written the rows of two trials; the second trial's
\* window opened seconds after the start time its row carries
C27_Witness ==
    \E a, b \in Events("append") :
        /\ a < b
        /\ CallOf(a) = CallOf(b)
        /\ RowOf(a).start_time = RowOf(b).start_time
        /\ WindowOpened(b) \div TicksPerSec > SecondsOf(RowOf(b).start_time)
        /\ SecondsOf(RowOf(b).end_time) > SecondsOf(RowOf(a).end_time)

\* the "append" events of the call of musical_ear_test that is running or
\* has just returned, oldest first
AppendsOfCall ==
    LET mine == {a \in Events("append") :
                    CallOf(a) = LastBefore("musical_ear_test", Len(log) + 1)}
    IN [k \in 1..Cardinality(mine) |-> Nth(mine, k)]

\* C29: a call of musical_ear_test that returns has run one practice trial
\* per example file and one test trial per test file; the list it returns
\* holds these outcomes and no others, the practice outcomes first, each group
\* in catalog order, and equals row for row what the call appended to the
\* files.
C29_ReturnedListIsTheRun ==
    pc = "returned" =>
        LET E == Len(catalog[test_type].example_files)
            T == Len(catalog[test_type].test_files)
        IN /\ Len(results) = E + T
           /\ Len(AppendsOfCall) = E + T
           /\ \A k \in 1..Len(results) :
                 /\ results[k].type = test_type
                 /\ results[k].phase = (IF k <= E THEN "practice" ELSE "test")
                 /\ results[k].trial = (IF k <= E THEN k ELSE k - E)
                 /\ results[k].stimulus =
                       (IF k <= E THEN catalog[test_type].example_files[k]
                        ELSE catalog[test_type].test_files[k - E])
                 /\ k <= Len(AppendsOfCall) =>
                       /\ log[AppendsOfCall[k]].file =
                             (IF k <= E THEN practice_output_filename
                              ELSE test_output_filename)
                       /\ \A field \in DOMAIN results[k] :
                             RowOf(AppendsOfCall[k])[field] = results[k][field]
           /\ Cardinality(Events("play")) >= E + T

\* C29: the second sub-test has returned its list after the first one wrote
\* rows of its own
C29_Witness ==
    /\ pc = "returned"
    /\ mainIdx = 1
    /\ Len(results) >= 2
    /\ Cardinality(Events("append")) > Len(results)
    /\ \E k1, k2 \in 1..Len(results) : results[k1].phase # results[k2].phase

\* the position of a test type in the order of the session
PlaceOf(type) == CHOOSE k \in 1..Len(starting_tests) : starting_tests[k] = type

\* C30: trials and sub-tests do not overlap: between two stimuli lie the
\* response and the row of the earlier trial, a sub-test starts only when the
\* one before has written all its rows, and so in each file the rows of the
\* first sub-test precede those of the second and the rows of a sub-test stand
\* in the order of their trials.
C30_NoOverlap ==
    /\ \A p \in Events("play") :
          LET before == LastBefore("play", p)
          IN before # 0 =>
                /\ Cardinality({a \in Events("append") : before < a /\ a < p}) = 1
                /\ Cardinality({r \in Events("response") : before < r /\ r < p}) = 1
                /\ LastBefore("response", p) < LastBefore("append", p)
    /\ pc = "play" => (Events("play") = {} \/ LastBefore("play", Len(log) + 1)
                                                < LastBefore("append", Len(log) + 1))
    /\ \A c \in Events("musical_ear_test") :
          LET first == LastBefore("musical_ear_test", c)
          IN first # 0 =>
                /\ log[first].type # log[c].type
                /\ Cardinality({a \in Events("append") : a < c})
                      = Len(catalog[log[first].type].example_files)
                          + Len(catalog[log[first].type].test_files)
                /\ Cardinality({e \in Events("play") : e < c})
                      = Cardinality({a \in Events("append") : a < c})
    /\ \A f \in Ledgers :
          \A n, m \in 1..Len(Rows(f)) :
              n < m =>
                 /\ PlaceOf(Rows(f)[n].type) <= PlaceOf(Rows(f)[m].type)
                 /\ Rows(f)[n].type = Rows(f)[m].type => Rows(f)[n].trial < Rows(f)[m].trial
                 /\ SecondsOf(Rows(f)[n].end_time) < SecondsOf(Rows(f)[m].end_time)

\* C30: the second sub-test plays a stimulus; both files hold rows of the
\* first one, and the practice file a row of the second
C30_Witness ==
    /\ pc = "wait"
    /\ mainIdx = 1
    /\ \A f \in Ledgers : \E n \in 1..Len(Rows(f)) : Rows(f)[n].type = starting_tests[1]
    /\ \E n \in 1..Len(Rows(practice_output_filename)) :
          Rows(practice_output_filename)[n].type = starting_tests[2]

\* the summaries of correct responses shown so far
Summaries == {n \in Events("instructions") : log[n].text = "Ergebnis"}

\* the test rows of a type with accuracy code 1
RowsWithCode1(type) ==
    {k \in 1..Len(TestRowsOf(type)) : TestRowsOf(type)[k].accuracy = 1}

\* what a summary shows is the count of the test rows with code 1, out of the
\* number of test items, for either type
SummaryRight ==
    /\ Summaries # {} => variant = "psd"
    /\ (variant = "psd" /\ pc \in {"end_instructions", "close", "done"}) => Summaries # {}
    /\ \A n \in Summaries :
          /\ \A e \in Events("instructions") :
                log[e].text = instruction_texts[S_end] => n < e
          /\ \A type \in {S_melody, S_rhythm} :
                /\ log[n].correct[type] = Cardinality(RowsWithCode1(type))
                /\ log[n].trials[type] = Len(catalog[type].test_files)
                /\ log[n].correct[type] \in 0..log[n].trials[type]

\* C31: in musical_ear_psd.py the summary shown before the end instruction
\* gives, for each test type, the number of test rows of that type with
\* accuracy code 1 (no practice row, no row with code 0 or 99), a number from 0
\* to the number of test items of the type; counting and showing it leave the
\* returned list and the two files as they are.
C31_SummaryCountsCode1 ==
    [][/\ SummaryRight'
       /\ (pc = "returned" \/ (pc = "main_loop" /\ mainIdx = Len(starting_tests)))
             => (results' = results /\ files' = files)]_vars

\* C31: a summary is shown of a session with a correct practice answer, a
\* missed and a wrong test trial and a correct test trial
C31_Witness ==
    /\ Summaries # {}
    /\ \E n \in 1..Len(Rows(practice_output_filename)) :
          Rows(practice_output_filename)[n].accuracy = 1
    /\ \E n, m, k \in 1..Len(Rows(test_output_filename)) :
          /\ Rows(test_output_filename)[n].accuracy = 99
          /\ Rows(test_output_filename)[m].accuracy = 0
          /\ Rows(test_output_filename)[k].accuracy = 1

\* ------------------------------------------------------------ termination

\* the sessions of musical_ear.py
InitLive == Init /\ variant = "met"

\* the steps musical_ear_test takes by itself, from its call to its return:
\* all its steps but the participant's key presses (and but score, see SpecLive)
Program ==
    \/ musical_ear_test
    \/ practice_loop
    \/ test_loop
    \/ play
    \/ wait_stimulus
    \/ clearEvents
    \/ while_flip
    \/ getKeys
    \/ translate
    \/ record
    \/ display_feedback
    \/ practice_instructions

\* the process keeps running: a step musical_ear_test can take is taken;
\* nothing is assumed of the participant. score is enabled exactly where
\* pc = "score" and is the one step that leaves this place, so that its weak
\* fairness is []<>(pc # "score").
SpecLive ==
    InitLive /\ [][NextCatalog]_vars /\ WF_vars(Program) /\ []<>(pc # "score")

\* a trial is between its stimulus and its response
InTrial == pc \in {"play", "wait", "clearEvents", "while", "getKeys", "translate"}

\* the response loop of a trial runs
InWindow == pc \in {"while", "getKeys"}

\* the participant leaves no instruction screen and no practice trial unanswered
Cooperative ==
    /\ []<>(pc # "waitKeys")
    /\ []<>~(phase = "practice" /\ InWindow)

\* C32: a scored trial ends whatever the participant does, and its window is
\* left only on a recognised key or with the countdown at zero; so after the
\* part2 instructions the scored loop comes to its return (a failed write
\* apart, which ends the run). The whole sub-test returns if the participant
\* answers every instruction screen and every practice trial; a practice
\* window is left on a 'y' or 'n' key only, so without one the trial waits.
C32_Termination ==
    /\ (phase = "test" /\ InTrial) ~> (pc = "score")
    /\ (phase = "test" /\ pc = "loop") ~> (pc = "returned" \/ WriteFailed)
    /\ Cooperative => ((pc = "musical_ear_test") ~> (pc = "returned" \/ WriteFailed))
    /\ [][(InWindow /\ pc' = "translate") =>
             IF phase = "practice"
             THEN response' \in keyList
             ELSE response' \in keyList \/ (response' = None /\ timer_getTime <= 0)]_vars

\* C32: a scored trial has ended by timeout, no key having been pressed in the
\* session's scored trials, and the sub-test has returned
C32_Witness ==
    /\ pc = "returned"
    /\ \E n \in 1..Len(results) : results[n].phase = "test" /\ results[n].response = S_NA
    /\ \E n \in 1..Len(results) : results[n].phase = "practice"

\* the events of one kind that belong to the call starting at index c of the log
EventsOfCall(kind, c) == {n \in Events(kind) : LastBefore("musical_ear_test", n) = c}

\* the items of the two catalogs of a test type
CatalogItems(type) ==
    {catalog[type].example_files[k] : k \in 1..Len(catalog[type].example_files)}
      \cup {catalog[type].test_files[k] : k \in 1..Len(catalog[type].test_files)}

\* C33: there is no retry: in one sub-test each item of the catalog is played
\* at most once and has at most one row, whatever was answered, and only items
\* of the catalog are played; a sub-test that has returned has played each
\* item once, collected one response a play and written one row a play.
C33_NoRetry ==
    \A c \in Events("musical_ear_test") :
        LET type == log[c].type
            plays == EventsOfCall("play", c)
            rows == EventsOfCall("append", c)
            done == c < LastBefore("musical_ear_test", Len(log) + 1) \/ ~InSubtest
                       \/ pc = "returned"
        IN /\ \A p \in plays : log[p].stimulus \in CatalogItems(type)
           /\ \A f \in CatalogItems(type) :
                 /\ Cardinality({p \in plays : log[p].stimulus = f}) <= 1
                 /\ Cardinality({a \in rows : RowOf(a).stimulus = f}) <= 1
                 /\ Cardinality({a \in rows : RowOf(a).stimulus = f})
                       <= Cardinality({p \in plays : log[p].stimulus = f})
                 /\ (done /\ ~WriteFailed) =>
                       /\ Cardinality({p \in plays : log[p].stimulus = f}) = 1
                       /\ Cardinality({a \in rows : RowOf(a).stimulus = f}) = 1
           /\ Cardinality(EventsOfCall("response", c)) <= Cardinality(plays)
           /\ Cardinality(plays) <= Cardinality(EventsOfCall("response", c)) + 1

\* C33: a sub-test has returned after a wrong answer and a missed trial; each
\* of the two items was played once
C33_Witness ==
    /\ pc = "returned"
    /\ \E n, m \in 1..Len(results) :
          /\ results[n].accuracy = 0
          /\ results[m].accuracy = 99
          /\ \A r \in {results[n], results[m]} :
                Cardinality({p \in Events("play") :
                                /\ log[p].stimulus = r.stimulus
                                /\ LastBefore("musical_ear_test", p)
                                      = LastBefore("musical_ear_test", Len(log) + 1)}) = 1

\* the keys of a result of musical_ear_test
ResultFields ==
    {"trial", "type", "phase", "stimulus", "response", "correct", "accuracy",
     "start_time", "end_time", "duration"}

\* what get_participant_info of the one or the other file returns for the
\* entries of this session's dialog
InfoOf(v) ==
    IF v = "psd"
    THEN [cur_date |-> participant_info.cur_date, Subject_ID |-> participant_info.Subject_ID]
    ELSE [experiment |-> "musical_ear_test", cur_date |-> participant_info.cur_date,
          Subject_ID |-> participant_info.Subject_ID]

F_melody_example1_test1 == <<"m","e","l","o","d","y","_","e","x","a","m","p","l","e","1","_","t","e","s","t","1","_","i","d","e","n","t","i","c","a","l",".","w","a","v">>
F_notes == <<"n","o","t","e","s",".","t","x","t">>
F_melody_notes == <<"m","e","l","o","d","y","_","n","o","t","e","s",".","t","x","t">>
F_old_melody_test1 == <<"o","l","d","_","m","e","l","o","d","y","_","t","e","s","t","1","_","i","d","e","n","t","i","c","a","l",".","w","a","v">>

\* the files a folder is made of
FolderPool ==
    {F_melody_example1, F_melody_test1, F_melody_test2, F_melody_test3, F_melody_test2b,
     F_rhythm_example1, F_rhythm_test1, F_melody_example1_test1, F_notes, F_melody_notes,
     F_old_melody_test1}

\* os.listdir of a folder of one to MaxListed of these files, in any order
Folders == UNION {Arrangements(FolderPool, n) : n \in 1..MaxListed}

\* musical_ear.py started in a folder with one of the listings of L
InitListed(L) ==
    /\ variant = "met"
    /\ names \in L
    /\ budget = 0
    /\ dirs = {base_audio_path(variant)}
    /\ files = <<>>
    /\ now = 0
    /\ keyBuffer = <<>>
    /\ pc = "check_paths"
    /\ ret = ""
    /\ participant_info = <<>>
    /\ catalog = <<>>
    /\ starting_tests = <<>>
    /\ mainIdx = 0
    /\ test_type = <<>>
    /\ phase = ""
    /\ i = 0
    /\ results = <<>>
    /\ start_time = 0
    /\ start_time_str = <<>>
    /\ timer = 0
    /\ response = None
    /\ scored = <<>>
    /\ questionnaire_data = <<>>
    /\ q = 0
    /\ correct_responses = (S_melody :> 0) @@ (S_rhythm :> 0)
    /\ number_trials = (S_melody :> 0) @@ (S_rhythm :> 0)
    /\ arrivals = <<>>
    /\ log = <<>>


InitLoading == InitListed(Folders)

\* main() of musical_ear.py up to the catalogs and the order of the sub-tests
NextLoading ==
    \/ check_paths
    \/ get_participant_info
    \/ load_catalogs
    \/ shuffle

SpecLoading == InitLoading /\ [][NextLoading]_vars

\* how often x occurs in the list
Occurrences(lst, x) == Cardinality({k \in 1..Len(lst) : lst[k] = x})

\* C35: loading loses and duplicates nothing: whatever the order of the
\* listing and whatever the ordinals (repeated ones and gaps included), the
\* test list is as long as the listing has test files of the type and holds
\* the path of each of them once, and nothing else.
C35_NothingLostOrDuplicated ==
    catalog # <<>> =>
        \A type \in {S_melody, S_rhythm} :
            LET listed == ListedTests(type)
                loaded == catalog[type].test_files
            IN /\ Len(loaded) = Len(listed)
               /\ \A n \in 1..Len(listed) :
                     Occurrences(loaded, PathJoin(base_audio_path(variant), listed[n])) = 1
               /\ \A k \in 1..Len(loaded) :
                     \E n \in 1..Len(listed) :
                         loaded[k] = PathJoin(base_audio_path(variant), listed[n])

\* C35: a catalog is loaded from a listing of three test files with a repeated
\* ordinal and a gap, listed against their ordinals
C35_Witness ==
    /\ catalog # <<>>
    /\ Len(ListedTests(S_melody)) = 3
    /\ ~WellNumbered(S_melody)
    /\ \E a, b \in 1..3 :
          a < b /\ OrdinalOf(ListedTests(S_melody)[a]) > OrdinalOf(ListedTests(S_melody)[b])
    /\ \E a, b \in 1..3 :
          a # b /\ OrdinalOf(ListedTests(S_melody)[a]) = OrdinalOf(ListedTests(S_melody)[b])

\* the members of a list
Members(lst) == {lst[k] : k \in 1..Len(lst)}

\* the names of the listing
Listed == Members(names)

\* C36: the two lists of a type divide the folder: a file is a practice item
\* exactly if its name starts with the type and contains "_example", a test
\* item exactly if it starts with the type, does not contain "_example" and
\* contains "_test", and nothing else is in a list. No file is in both lists,
\* a name with both markers is a practice item, and a list of one type holds
\* no file of the other.
C36_ListsDivideFolder ==
    catalog # <<>> =>
        \A type \in {S_melody, S_rhythm} :
            LET examples == Members(catalog[type].example_files)
                tests == Members(catalog[type].test_files)
                path(f) == PathJoin(base_audio_path(variant), f)
            IN /\ \A f \in Listed :
                     /\ path(f) \in examples <=>
                           (StartsWith(f, type) /\ Contains(f, S_example))
                     /\ path(f) \in tests <=>
                           (StartsWith(f, type) /\ ~Contains(f, S_example)
                              /\ Contains(f, S_test))
                     /\ (Contains(f, S_example) /\ Contains(f, S_test) /\ StartsWith(f, type))
                           => (path(f) \in examples /\ path(f) \notin tests)
               /\ examples \cup tests \subseteq {path(f) : f \in Listed}
               /\ examples \cap tests = {}
               /\ \A other \in {S_melody, S_rhythm} \ {type} :
                     \A f \in Listed :
                        StartsWith(f, other) => path(f) \notin examples \cup tests

\* C36: the catalogs are loaded from a folder with a file that has both
\* markers, a file of the other type and a file of no list
C36_Witness ==
    /\ catalog # <<>>
    /\ F_melody_example1_test1 \in Listed
    /\ \E f \in Listed : StartsWith(f, S_rhythm) /\ Contains(f, S_test)
    /\ \E f \in Listed : ~StartsWith(f, S_melody) /\ ~StartsWith(f, S_rhythm)
    /\ Len(catalog[S_melody].example_files) = 1
    /\ Len(catalog[S_rhythm].test_files) = 1

\* ------------------------------------------ folders with a file to stumble on

\* files without a digit after "_test": two test files, and one with both markers
F_melody_test_final == <<"m","e","l","o","d","y","_","t","e","s","t","_","f","i","n","a","l","_","d","i","f","f","e","r","e","n","t",".","w","a","v">>
F_rhythm_test_final == <<"r","h","y","t","h","m","_","t","e","s","t","_","f","i","n","a","l","_","i","d","e","n","t","i","c","a","l",".","w","a","v">>
F_melody_example_test == <<"m","e","l","o","d","y","_","e","x","a","m","p","l","e","_","t","e","s","t","_","i","d","e","n","t","i","c","a","l",".","w","a","v">>

\* the files such a folder is made of
StumblePool ==
    {F_melody_example1, F_melody_test1, F_melody_test_final, F_rhythm_test_final,
     F_melody_example_test}

\* os.listdir of a folder of two to MaxListed of these files, in any order
StumbleFolders == UNION {Arrangements(StumblePool, n) : n \in 2..MaxListed}

InitStumble == InitListed(StumbleFolders)

\* the sessions of musical_ear.py in these folders
SpecStumble == InitStumble /\ [][NextCatalog]_vars

\* a listed file that starts with a test type and contains "_test" has no
\* digit after "_test"
NoDigitAfterTest(f) ==
    /\ \E type \in {S_melody, S_rhythm} : StartsWith(f, type)
    /\ Contains(f, S_test)
    /\ FindAllDigits(Split(f, S_test)[2]) = <<>>

\* the session has not come past the loading of the catalogs: no catalog, no
\* order of the sub-tests, no file, no trial
EndedAtLoading ==
    /\ pc \in {"check_paths", "get_participant_info", "quit", "load", "raised"}
    /\ catalog = <<>>
    /\ starting_tests = <<>>
    /\ files = <<>>
    /\ log = <<>>

\* C37 as stated: with a file that starts with a test type, contains "_test"
\* and has no digit after it, the loading raises, and the session ends without
\* a result file and without a trial.
C37_NoDigitEndsSession ==
    (\E f \in Listed : NoDigitAfterTest(f)) => EndedAtLoading

\* C37: with a file that starts with a test type, contains "_test" but not
\* "_example" and has no digit after "_test", the loading raises, and the
\* session ends without a result file and without a trial.
C37_NoDigitTestFileEndsSession ==
    (\E f \in Listed : NoDigitAfterTest(f) /\ ~Contains(f, S_example)) => EndedAtLoading

\* C37: the loading has raised on a test file without a digit, after the
\* dialog and with valid files in the folder
C37_Witness ==
    /\ pc = "raised"
    /\ participant_info # <<>>
    /\ \E f \in Listed : NoDigitAfterTest(f) /\ ~Contains(f, S_example)
    /\ F_melody_test1 \in Listed
    /\ files = <<>>

====
